---- MODULE Spec2Model ----
(***************************************************************************)
(* State-machine model of the vdfy-backend video intake service: the       *)
(* upload pipeline (transcode, transcription, two blob writes, short-link  *)
(* write, temp-file cleanup), the delete handler and the short-link        *)
(* resolvers, over the persisted state they share (object storage and the  *)
(* shortLinks collection) and the local upload directory.                  *)
(*                                                                         *)
(* A JavaScript string that the code inspects or builds (emails, keys,     *)
(* URLs) is a sequence of one-character strings.  A request handler is     *)
(* split at its awaits: one action runs the code from one await to the     *)
(* next, which is how the Node event loop interleaves requests.            *)
(***************************************************************************)
EXTENDS Integers, Sequences, FiniteSets, TLC

\* ------------------------------------------------------------------ bounds

\* requests that write (uploads, deletes, shortens) in one behaviour of Spec
MaxRequests == 3
\* the same, in one behaviour of SpecRev
MaxRevRequests == 2
\* the same, in one behaviour of SpecAuth
MaxAuthRequests == 2
\* the same, in one behaviour of SpecRename
MaxRenameRequests == 2
\* uploads in one behaviour of SpecAnalyze
MaxAnalyzeRequests == 1
\* requests that write in one behaviour of SpecOwners
MaxOwnerRequests == 2
\* largest value Date.now() takes (one decimal digit)
MaxClock == 1

\* the request contexts the event loop interleaves
Slots == {1, 2}

\* ----------------------------------------------------------------- strings

\* JavaScript's undefined, for a value that is otherwise a character sequence
undefined == <<"undefined">>

\* a body field that is no string: multer makes an array of a repeated field
arrayValue == <<"array">>

RECURSIVE Join(_)
Join(ss) == IF ss = <<>> THEN <<>> ELSE Head(ss) \o Join(Tail(ss))

startsWith(str, prefix) ==
    /\ Len(prefix) <= Len(str)
    /\ SubSeq(str, 1, Len(prefix)) = prefix

endsWith(str, suffix) ==
    /\ Len(suffix) <= Len(str)
    /\ SubSeq(str, Len(str) - Len(suffix) + 1, Len(str)) = suffix

\* index of the first occurrence of pat in str, 0 when there is none
IndexOf(str, pat) ==
    LET hits == {i \in 1..(Len(str) - Len(pat) + 1) :
                    SubSeq(str, i, i + Len(pat) - 1) = pat}
    IN  IF hits = {} THEN 0 ELSE CHOOSE i \in hits : \A j \in hits : i <= j

\* String.prototype.replace with a string pattern: the first occurrence only
replaceFirst(str, pat, rep) ==
    LET i == IndexOf(str, pat)
    IN  IF i = 0 THEN str
        ELSE SubSeq(str, 1, i - 1) \o rep \o SubSeq(str, i + Len(pat), Len(str))

UpperToLower ==
    [c \in {"A", "B", "I", "O", "U", "X"} |->
        CASE c = "A" -> "a" [] c = "B" -> "b" [] c = "I" -> "i"
          [] c = "O" -> "o" [] c = "U" -> "u" [] c = "X" -> "x"]

toLowerCase(str) ==
    [i \in DOMAIN str |-> IF str[i] \in DOMAIN UpperToLower
                          THEN UpperToLower[str[i]] ELSE str[i]]

\* str.replace(/[@.]/g, '_')
replaceAtDot(str) ==
    [i \in DOMAIN str |-> IF str[i] \in {"@", "."} THEN "_" ELSE str[i]]

MP4 == <<".", "m", "p", "4">>
WEBM == <<".", "w", "e", "b", "m">>
TXT == <<".", "t", "x", "t">>

\* str.replace(/\.(mp4|webm)$/, '.txt')
replaceMediaExt(str) ==
    IF endsWith(str, MP4) THEN SubSeq(str, 1, Len(str) - Len(MP4)) \o TXT
    ELSE IF endsWith(str, WEBM) THEN SubSeq(str, 1, Len(str) - Len(WEBM)) \o TXT
    ELSE str

\* the characters the sanitize regex keeps, among the characters of the model
AllowedChars ==
    {"a", "b", "e", "g", "i", "l", "n", "o", "r", "u", "x",
     "A", "B", "G", "I", "O", "U", "X",
     "0", "1", "2", "3", "4", "5", "6", "7", "8", "9", "-", "_", " "}

RECURSIVE trimStart(_)
trimStart(str) ==
    IF str # <<>> /\ Head(str) = " " THEN trimStart(Tail(str)) ELSE str

RECURSIVE trimEnd(_)
trimEnd(str) ==
    IF str # <<>> /\ str[Len(str)] = " "
    THEN trimEnd(SubSeq(str, 1, Len(str) - 1)) ELSE str

trim(str) == trimEnd(trimStart(str))

sanitize(str) == trim(SelectSeq(str, LAMBDA c : c \in AllowedChars))

Digit(n) == <<CASE n = 0 -> "0" [] n = 1 -> "1" [] n = 2 -> "2" [] n = 3 -> "3"
                [] n = 4 -> "4" [] n = 5 -> "5" [] n = 6 -> "6" [] n = 7 -> "7"
                [] n = 8 -> "8" [] OTHER -> "9">>

USERS == <<"u", "s", "e", "r", "s", "/">>
SLASH == <<"/">>
REC == <<"r", "e", "c", "_">>
PUBLIC == <<"p", "u", "b", "l", "i", "c">>
GENERAL == <<"G", "e", "n", "e", "r", "a", "l">>

\* process.env.R2_PUBLIC_URL
R2_PUBLIC_URL == <<"R">>

\* ------------------------------------------------------------------ inputs

\* values of the multipart field "folder" (the owner's email), undefined when absent
Folders == {undefined, <<"A", "@", "b">>}
\* the same, with the value of a request that repeats the field
FolderFields == Folders \cup {arrayValue}
\* values of the multipart field "subfolder" (the category)
Subfolders == {undefined, <<"I">>, <<"!">>, <<" ", "I", "!">>}
\* texts the transcription service returns
Texts == {"hello", ""}
\* identifiers generateShortId() draws; few, so that two draws can collide
ShortIds == {"k1", "k2"}

\* messages of the errors the external services reject with
FfmpegErrors == {"ffmpeg exited with code 1", "ffmpeg was killed with signal SIGKILL"}
WhisperError == "Connection error."
R2Error == "R2 unavailable"
FirestoreError == "Firestore unavailable"

\* ------------------------------------------------------------------- state

VARIABLES
    disk,      \* paths of the files in the local uploads/ directory
    storage,   \* the R2 bucket: a set of objects [key, body]
    links,     \* the shortLinks collection: document id -> document
    now,       \* the last value Date.now() returned (it never goes back)
    started,   \* requests that write received so far
    pc,        \* per request slot: the await the handler is suspended at
    req,       \* per request slot: the request being handled
    loc,       \* per request slot: the handler's local variables
    calls,     \* per request slot: the external calls issued, in order, with results
    resp,      \* per request slot: the response sent, status 0 before it is sent
    handed     \* the short links handed to clients: every (id, url) and the last url per id

vars == <<disk, storage, links, now, started, pc, req, loc, calls, resp, handed>>

NoPath == <<>>

NoDoc == [exists |-> FALSE, url |-> undefined, r2Key |-> undefined,
          email |-> undefined, type |-> "", transcription |-> ""]

NoReq == [kind |-> "none", rev |-> "", hasFile |-> FALSE, file |-> "",
          folder |-> undefined, subfolder |-> undefined,
          email |-> undefined, videoKey |-> undefined,
          route |-> "", id |-> "", longUrl |-> undefined, type |-> "",
          authorization |-> "", token |-> "", uid |-> undefined,
          textUrl |-> undefined]

NoLoc == [tempPath |-> NoPath, compressedPath |-> NoPath, newPath |-> NoPath,
          text |-> "", r2Key |-> undefined, shortId |-> "", snapshot |-> {},
          doc |-> NoDoc]

NoResp == [status |-> 0, error |-> "", publicUrl |-> <<>>, transcription |-> "",
           location |-> undefined, url |-> undefined, success |-> FALSE, page |-> "",
           videos |-> <<>>, analysis |-> ""]

Init ==
    /\ disk = {}
    /\ storage = {}
    /\ links = [id \in ShortIds |-> NoDoc]
    /\ now = 0
    /\ started = 0
    /\ pc = [s \in Slots |-> "idle"]
    /\ req = [s \in Slots |-> NoReq]
    /\ loc = [s \in Slots |-> NoLoc]
    /\ calls = [s \in Slots |-> <<>>]
    /\ resp = [s \in Slots |-> NoResp]
    /\ handed = [all |-> {}, last |-> [id \in ShortIds |-> undefined]]

\* ------------------------------------------------------- external services

\* PutObjectCommand: the object under Key is created or replaced, and its
\* LastModified is the time of the write
PutObject(st, key, body) ==
    {o \in st : o.key # key} \cup {[key |-> key, body |-> body, lastModified |-> now]}

\* DeleteObjectCommand: deleting a key that holds nothing succeeds
DeleteObject(st, key) == {o \in st : o.key # key}

\* a set that keeps the document already stored under the id
SetDocKeepsFirst(lk, id, doc) == IF lk[id].exists THEN lk ELSE [lk EXCEPT ![id] = doc]

\* db.collection('shortLinks').doc(id).set(doc): last writer wins
SetDoc(lk, id, doc) == [lk EXCEPT ![id] = doc]

\* an external call just issued
Call(op) == [op |-> op, result |-> "pending", error |-> "", value |-> ""]

\* the pending call of slot s has resolved with value
Resolved(s, value) ==
    [calls[s] EXCEPT ![Len(calls[s])].result = "ok", ![Len(calls[s])].value = value]

\* the pending call of slot s has rejected with an error carrying message
Rejected(s, message) ==
    [calls[s] EXCEPT ![Len(calls[s])].result = "failed", ![Len(calls[s])].error = message]

\* a response carrying the short link of id, which stands for url, reaches the client
HandOut(id, url) ==
    [all |-> handed.all \cup {<<id, url>>}, last |-> [handed.last EXCEPT ![id] = url]]

\* ---------------------------------------------------- upload: pure pieces

truthy(str) == str # undefined /\ str # <<>>

ownerEmailOf(folder) == IF truthy(folder) THEN toLowerCase(folder) ELSE PUBLIC

formNameOf(subfolder) == IF truthy(subfolder) THEN sanitize(subfolder) ELSE GENERAL

emailFolderOf(ownerEmail) == replaceAtDot(ownerEmail)

r2KeyOf(emailFolder, formName, t) ==
    Join(<<USERS, emailFolder, SLASH, formName, SLASH, REC, Digit(t), MP4>>)

longUrlOf(r2Key) == Join(<<R2_PUBLIC_URL, SLASH, r2Key>>)

textKeyOf(r2Key) == replaceFirst(r2Key, MP4, TXT)

compressedPathOf(tempPath) == Append(tempPath, "_compressed.mp4")

\* what the ffmpeg run leaves in the compressed file
CompressedBody(file) == "mp4:" \o file

\* an upload record that never caches the transcript
linkDocWithoutText(rev, longUrl, r2Key, ownerEmail, text) ==
    [exists |-> TRUE, url |-> longUrl, r2Key |-> r2Key, email |-> ownerEmail,
     type |-> IF rev \in {"p000", "p004", "p005"} THEN "video" ELSE "",
     transcription |-> ""]

\* the shortLinks document the upload writes, per revision
linkDocOf(rev, longUrl, r2Key, ownerEmail, text) ==
    [exists |-> TRUE, url |-> longUrl, r2Key |-> r2Key, email |-> ownerEmail,
     type |-> IF rev \in {"p000", "p004", "p005"} THEN "video" ELSE "",
     transcription |-> IF rev \in {"p000", "p004"} THEN text ELSE ""]

\* the route of the link the upload returns: `${serverUrl}/v/${shortId}`, /s/ in part_000
publicRouteOf(rev) == IF rev = "p000" THEN "s" ELSE "v"

\* if (p && fs.existsSync(p)) fs.unlinkSync(p)
unlinkIfExists(d, path) == IF path # NoPath /\ path \in d THEN d \ {path} ELSE d

\* a cleanup that empties the upload directory
cleanupAll(d, tempPath, compressedPath) == {}

\* the two unlink lines of the success path and of the catch block
cleanup(d, tempPath, compressedPath) ==
    unlinkIfExists(unlinkIfExists(d, tempPath), compressedPath)

\* an error response that hides the failure's message
errorResponseGeneric(status, message) ==
    [NoResp EXCEPT !.status = status, !.error = "Server Error"]

\* an error response that is always a 500
errorResponse500(status, message) == [NoResp EXCEPT !.status = 500, !.error = message]

\* res.status(500).json({ error: e.message })
errorResponse(status, message) == [NoResp EXCEPT !.status = status, !.error = message]

\* res.json({ publicUrl: shortUrl, transcription: transcription.text })
uploadResponse(rev, shortId, text) ==
    [NoResp EXCEPT !.status = 200, !.publicUrl = <<publicRouteOf(rev), shortId>>,
                   !.transcription = text]

\* ------------------------------------------------- upload: POST /api/upload-with-ai

Free(s) == pc[s] = "idle"

\* the response is out: the request and everything it held is dropped
Finish(s) ==
    /\ pc[s] = "done"
    /\ pc' = [pc EXCEPT ![s] = "idle"]
    /\ req' = [req EXCEPT ![s] = NoReq]
    /\ loc' = [loc EXCEPT ![s] = NoLoc]
    /\ calls' = [calls EXCEPT ![s] = <<>>]
    /\ resp' = [resp EXCEPT ![s] = NoResp]
    /\ UNCHANGED <<disk, storage, links, now, started, handed>>

\* a catch block that cleans up and reports success
UploadCatchReportsSuccess(s, d, message) ==
    /\ disk' = cleanup(d, loc[s].tempPath, loc[s].compressedPath)
    /\ resp' = [resp EXCEPT ![s] = uploadResponse(req[s].rev, loc[s].shortId, loc[s].text)]
    /\ pc' = [pc EXCEPT ![s] = "done"]
    /\ calls' = [calls EXCEPT ![s] = Rejected(s, message)]
    /\ loc' = loc

\* the catch block of the upload handler, entered with the disk as d
UploadCatch(s, d, message) ==
    /\ disk' = cleanup(d, loc[s].tempPath, loc[s].compressedPath)
    /\ resp' = [resp EXCEPT ![s] = errorResponse(500, message)]
    /\ pc' = [pc EXCEPT ![s] = "done"]
    /\ calls' = [calls EXCEPT ![s] = Rejected(s, message)]
    /\ loc' = loc

\* messages of the TypeError of a method call on a body field that is no string
NoToLowerCaseError == "req.body.folder.toLowerCase is not a function"
NoReplaceError == "str.replace is not a function"

\* multer stores the file, then the handler runs up to the await of compressVideo;
\* a field that is no string throws before tempPath is assigned
UploadStart(s, rev, folders, subfolders) ==
    /\ Free(s)
    /\ started' = started + 1
    /\ \E hasFile \in BOOLEAN, folder \in folders, subfolder \in subfolders :
         LET file == ToString(started + 1)
             tempPath == <<file>>
         IN  /\ req' = [req EXCEPT ![s] =
                          [NoReq EXCEPT !.kind = "upload", !.rev = rev,
                                        !.hasFile = hasFile,
                                        !.file = IF hasFile THEN file ELSE "",
                                        !.folder = folder, !.subfolder = subfolder]]
             /\ IF ~hasFile
                THEN /\ disk' = disk
                     /\ loc' = [loc EXCEPT ![s] = NoLoc]
                     /\ calls' = [calls EXCEPT ![s] = <<>>]
                     /\ resp' = [resp EXCEPT ![s] = errorResponse(400, "No file")]
                     /\ pc' = [pc EXCEPT ![s] = "done"]
                ELSE IF folder = arrayValue \/ subfolder = arrayValue
                THEN /\ disk' = cleanup(disk \cup {tempPath}, NoPath, NoPath)
                     /\ loc' = [loc EXCEPT ![s] = NoLoc]
                     /\ calls' = [calls EXCEPT ![s] = <<>>]
                     /\ resp' = [resp EXCEPT ![s] =
                                   errorResponse(500, IF folder = arrayValue
                                                      THEN NoToLowerCaseError
                                                      ELSE NoReplaceError)]
                     /\ pc' = [pc EXCEPT ![s] = "done"]
                ELSE /\ disk' = disk \cup {tempPath}
                     /\ loc' = [loc EXCEPT ![s] =
                                  [NoLoc EXCEPT !.tempPath = tempPath,
                                                !.compressedPath = compressedPathOf(tempPath)]]
                     /\ calls' = [calls EXCEPT ![s] = <<Call("transcode")>>]
                     /\ resp' = [resp EXCEPT ![s] = NoResp]
                     /\ pc' = [pc EXCEPT ![s] = "compress"]
    /\ UNCHANGED <<storage, links, now, handed>>

\* a handler that runs ffmpeg a second time when the first run fails
CompressDoneRetries(s) ==
    /\ pc[s] = "compress"
    /\ \E outcome \in {"ok"} \cup FfmpegErrors, written \in BOOLEAN :
         IF outcome = "ok"
         THEN /\ written
              /\ disk' = disk \cup {loc[s].compressedPath}
              /\ calls' = [calls EXCEPT ![s] =
                             Append(Resolved(s, ""), Call("transcribe"))]
              /\ pc' = [pc EXCEPT ![s] = "transcribe"]
              /\ UNCHANGED <<loc, resp>>
         ELSE IF Len(calls[s]) = 1
         THEN /\ disk' = IF written THEN disk \cup {loc[s].compressedPath} ELSE disk
              /\ calls' = [calls EXCEPT ![s] =
                             Append(Rejected(s, outcome), Call("transcode"))]
              /\ UNCHANGED <<pc, loc, resp>>
         ELSE UploadCatch(s, IF written THEN disk \cup {loc[s].compressedPath} ELSE disk,
                          outcome)
    /\ UNCHANGED <<storage, links, now, started, req, handed>>

\* a compressVideo whose promise resolves on 'error' as on 'end'
CompressDoneUnchecked(s) ==
    /\ pc[s] = "compress"
    /\ \E outcome \in {"ok"} \cup FfmpegErrors, written \in BOOLEAN :
         /\ outcome = "ok" => written
         /\ disk' = IF written THEN disk \cup {loc[s].compressedPath} ELSE disk
         /\ calls' = [calls EXCEPT ![s] =
                        Append(IF outcome = "ok" THEN Resolved(s, "") ELSE Rejected(s, outcome),
                               Call("transcribe"))]
         /\ pc' = [pc EXCEPT ![s] = "transcribe"]
         /\ UNCHANGED <<loc, resp>>
    /\ UNCHANGED <<storage, links, now, started, req, handed>>

\* a compressVideo whose promise never settles when ffmpeg fails
CompressDoneHangs(s) ==
    /\ pc[s] = "compress"
    /\ \E outcome \in {"ok"} \cup FfmpegErrors, written \in BOOLEAN :
         IF outcome = "ok"
         THEN /\ written
              /\ disk' = disk \cup {loc[s].compressedPath}
              /\ calls' = [calls EXCEPT ![s] =
                             Append(Resolved(s, ""), Call("transcribe"))]
              /\ pc' = [pc EXCEPT ![s] = "transcribe"]
              /\ UNCHANGED <<loc, resp>>
         ELSE /\ disk' = IF written THEN disk \cup {loc[s].compressedPath} ELSE disk
              /\ calls' = [calls EXCEPT ![s] = Rejected(s, outcome)]
              /\ pc' = [pc EXCEPT ![s] = "hung"]
              /\ UNCHANGED <<loc, resp>>
    /\ UNCHANGED <<storage, links, now, started, req, handed>>

\* ffmpeg ends or fails; on 'end' the handler goes on to the transcription call
CompressDone(s) ==
    /\ pc[s] = "compress"
    /\ \E outcome \in {"ok"} \cup FfmpegErrors, written \in BOOLEAN :
         IF outcome = "ok"
         THEN /\ written
              /\ disk' = disk \cup {loc[s].compressedPath}
              /\ calls' = [calls EXCEPT ![s] =
                             Append(Resolved(s, ""), Call("transcribe"))]
              /\ pc' = [pc EXCEPT ![s] = "transcribe"]
              /\ UNCHANGED <<loc, resp>>
         ELSE UploadCatch(s, IF written THEN disk \cup {loc[s].compressedPath} ELSE disk,
                          outcome)
    /\ UNCHANGED <<storage, links, now, started, req, handed>>

\* the transcription returns; the key is built from Date.now() and the media put is issued
TranscribeDone(s, texts) ==
    /\ pc[s] = "transcribe"
    /\ \E ok \in BOOLEAN, text \in texts, t \in now..MaxClock :
         IF ok
         THEN /\ now' = t
              /\ loc' = [loc EXCEPT ![s].text = text,
                                    ![s].r2Key = r2KeyOf(emailFolderOf(ownerEmailOf(req[s].folder)),
                                                         formNameOf(req[s].subfolder), t)]
              /\ calls' = [calls EXCEPT ![s] =
                             Append(Resolved(s, text), Call("putMedia"))]
              /\ pc' = [pc EXCEPT ![s] = "putMedia"]
              /\ UNCHANGED <<disk, resp>>
         ELSE /\ text = CHOOSE x \in texts : TRUE
              /\ t = now
              /\ now' = now
              /\ UploadCatch(s, disk, WhisperError)
    /\ UNCHANGED <<storage, links, started, req, handed>>

\* the media PutObject returns; the transcript PutObject is issued
PutMediaDone(s) ==
    /\ pc[s] = "putMedia"
    /\ \E ok \in BOOLEAN :
         IF ok
         THEN /\ storage' = PutObject(storage, loc[s].r2Key, CompressedBody(req[s].file))
              /\ calls' = [calls EXCEPT ![s] =
                             Append(Resolved(s, ""), Call("putText"))]
              /\ pc' = [pc EXCEPT ![s] = "putText"]
              /\ UNCHANGED <<disk, loc, resp>>
         ELSE /\ storage' = storage
              /\ UploadCatch(s, disk, R2Error)
    /\ UNCHANGED <<links, now, started, req, handed>>

\* the transcript PutObject returns; the short id is drawn and the document set is issued
PutTextDone(s) ==
    /\ pc[s] = "putText"
    /\ \E ok \in BOOLEAN, shortId \in ShortIds :
         IF ok
         THEN /\ storage' = PutObject(storage, textKeyOf(loc[s].r2Key), loc[s].text)
              /\ loc' = [loc EXCEPT ![s].shortId = shortId]
              /\ calls' = [calls EXCEPT ![s] =
                             Append(Resolved(s, ""), Call("setLink"))]
              /\ pc' = [pc EXCEPT ![s] = "setLink"]
              /\ UNCHANGED <<disk, resp>>
         ELSE /\ shortId = CHOOSE id \in ShortIds : TRUE
              /\ storage' = storage
              /\ UploadCatch(s, disk, R2Error)
    /\ UNCHANGED <<links, now, started, req, handed>>

\* a handler that deletes the two blobs it wrote when the document set fails
SetLinkDoneRollsBack(s) ==
    /\ pc[s] = "setLink"
    /\ \E ok \in BOOLEAN :
         IF ok
         THEN /\ links' = SetDoc(links, loc[s].shortId,
                                 linkDocOf(req[s].rev, longUrlOf(loc[s].r2Key), loc[s].r2Key,
                                           ownerEmailOf(req[s].folder), loc[s].text))
              /\ disk' = cleanup(disk, loc[s].tempPath, loc[s].compressedPath)
              /\ resp' = [resp EXCEPT ![s] =
                            uploadResponse(req[s].rev, loc[s].shortId, loc[s].text)]
              /\ calls' = [calls EXCEPT ![s] = Resolved(s, "")]
              /\ pc' = [pc EXCEPT ![s] = "done"]
              /\ loc' = loc
              /\ handed' = HandOut(loc[s].shortId, longUrlOf(loc[s].r2Key))
              /\ storage' = storage
         ELSE /\ links' = links
              /\ handed' = handed
              /\ storage' = DeleteObject(DeleteObject(storage, loc[s].r2Key),
                                         textKeyOf(loc[s].r2Key))
              /\ UploadCatch(s, disk, FirestoreError)
    /\ UNCHANGED <<now, started, req>>

\* the document set returns; temp files are removed and the response is sent
SetLinkDone(s) ==
    /\ pc[s] = "setLink"
    /\ \E ok \in BOOLEAN :
         IF ok
         THEN /\ links' = SetDoc(links, loc[s].shortId,
                                 linkDocOf(req[s].rev, longUrlOf(loc[s].r2Key), loc[s].r2Key,
                                           ownerEmailOf(req[s].folder), loc[s].text))
              /\ disk' = cleanup(disk, loc[s].tempPath, loc[s].compressedPath)
              /\ resp' = [resp EXCEPT ![s] =
                            uploadResponse(req[s].rev, loc[s].shortId, loc[s].text)]
              /\ calls' = [calls EXCEPT ![s] = Resolved(s, "")]
              /\ pc' = [pc EXCEPT ![s] = "done"]
              /\ loc' = loc
              /\ handed' = HandOut(loc[s].shortId, longUrlOf(loc[s].r2Key))
         ELSE /\ links' = links
              /\ handed' = handed
              /\ UploadCatch(s, disk, FirestoreError)
    /\ UNCHANGED <<storage, now, started, req>>

\* ------------------------------------------------ delete: DELETE /api/delete-video

\* the emails a verified token carries, undefined for a token without one
CallerEmails == {undefined, <<"a", "@", "b">>}

\* the videoKey values a client sends: the keys it can see in storage, or none
VideoKeys == {o.key : o \in storage} \cup {undefined}

NoEmailError == "Cannot read properties of undefined (reading 'toLowerCase')"
NoKeyError == "Cannot read properties of undefined (reading 'startsWith')"

\* `users/${emailFolder}/`
ownerPrefixOf(email) == Join(<<USERS, replaceAtDot(toLowerCase(email)), SLASH>>)

\* the revisions whose delete looks records up by url when none matches by r2Key
deleteFallsBack(rev) == rev = "server"

\* the documents a where(field, '==', value) query returns
docsWhereR2Key(lk, key) == {id \in DOMAIN lk : lk[id].exists /\ lk[id].r2Key = key}

docsWhereUrl(lk, url) == {id \in DOMAIN lk : lk[id].exists /\ lk[id].url = url}

\* batch.delete(doc.ref) for every document of the snapshot, then batch.commit()
commitDeletes(lk, ids) == [id \in DOMAIN lk |-> IF id \in ids THEN NoDoc ELSE lk[id]]

\* res.json({ success: true })
successResponse == [NoResp EXCEPT !.status = 200, !.success = TRUE]

\* the catch block of the delete handler
DeleteCatch(s, message) ==
    /\ resp' = [resp EXCEPT ![s] = errorResponse(500, message)]
    /\ pc' = [pc EXCEPT ![s] = "done"]
    /\ calls' = [calls EXCEPT ![s] = Rejected(s, message)]
    /\ loc' = loc

\* the handler runs up to the await of the media DeleteObject, for the caller
\* email of the verified token; log holds the calls the middleware made
DeleteBody(s, base, log, rev, email, videoKey) ==
    /\ req' = [req EXCEPT ![s] =
                 [base EXCEPT !.kind = "delete", !.rev = rev,
                              !.email = email, !.videoKey = videoKey]]
    /\ loc' = [loc EXCEPT ![s] = NoLoc]
    /\ IF email = undefined \/ videoKey = undefined
       THEN /\ resp' = [resp EXCEPT ![s] =
                          errorResponse(500, IF email = undefined THEN NoEmailError
                                             ELSE NoKeyError)]
            /\ calls' = [calls EXCEPT ![s] = log]
            /\ pc' = [pc EXCEPT ![s] = "done"]
       ELSE IF ~startsWith(videoKey, ownerPrefixOf(email))
       THEN /\ resp' = [resp EXCEPT ![s] = errorResponse(403, "Access Denied")]
            /\ calls' = [calls EXCEPT ![s] = log]
            /\ pc' = [pc EXCEPT ![s] = "done"]
       ELSE /\ resp' = [resp EXCEPT ![s] = NoResp]
            /\ calls' = [calls EXCEPT ![s] = Append(log, Call("deleteMedia"))]
            /\ pc' = [pc EXCEPT ![s] = "delMedia"]

\* a delete request of a caller whose token verified
DeleteStart(s, rev) ==
    /\ Free(s)
    /\ started' = started + 1
    /\ \E email \in CallerEmails, videoKey \in VideoKeys :
         DeleteBody(s, NoReq, <<>>, rev, email, videoKey)
    /\ UNCHANGED <<disk, storage, links, now, handed>>

\* the media DeleteObject returns; the transcript DeleteObject is issued
DelMediaDone(s) ==
    /\ pc[s] = "delMedia"
    /\ \E ok \in BOOLEAN :
         IF ok
         THEN /\ storage' = DeleteObject(storage, req[s].videoKey)
              /\ calls' = [calls EXCEPT ![s] =
                             Append(Resolved(s, ""), Call("deleteText"))]
              /\ pc' = [pc EXCEPT ![s] = "delText"]
              /\ UNCHANGED <<loc, resp>>
         ELSE /\ storage' = storage
              /\ DeleteCatch(s, R2Error)
    /\ UNCHANGED <<disk, links, now, started, req, handed>>

\* the key of the transcript the delete removes next to the media:
\* videoKey.replace(/\.(mp4|webm)$/, '.txt'), videoKey.replace('.webm', '.txt') in part_003
deleteTextKeyOf(rev, videoKey) ==
    IF rev = "p003" THEN replaceFirst(videoKey, WEBM, TXT) ELSE replaceMediaExt(videoKey)

\* the transcript DeleteObject returns, its failure only logged; the r2Key query
\* is issued, where part_003 answers at once
DelTextDone(s) ==
    /\ pc[s] = "delText"
    /\ \E ok \in BOOLEAN :
         /\ storage' = IF ok
                       THEN DeleteObject(storage,
                                         deleteTextKeyOf(req[s].rev, req[s].videoKey))
                       ELSE storage
         /\ IF req[s].rev = "p003"
            THEN /\ calls' = [calls EXCEPT ![s] =
                                IF ok THEN Resolved(s, "") ELSE Rejected(s, R2Error)]
                 /\ resp' = [resp EXCEPT ![s] = successResponse]
                 /\ pc' = [pc EXCEPT ![s] = "done"]
            ELSE /\ calls' = [calls EXCEPT ![s] =
                                Append(IF ok THEN Resolved(s, "") ELSE Rejected(s, R2Error),
                                       Call("queryR2Key"))]
                 /\ resp' = resp
                 /\ pc' = [pc EXCEPT ![s] = "queryR2Key"]
    /\ UNCHANGED <<disk, links, now, started, req, loc, handed>>

\* a query returned the snapshot ids: a batch delete is issued for a non-empty one
AfterQuery(s, ids, fallBack) ==
    IF ids # {}
    THEN /\ loc' = [loc EXCEPT ![s].snapshot = ids]
         /\ calls' = [calls EXCEPT ![s] =
                        Append(Resolved(s, ""), Call("commit"))]
         /\ pc' = [pc EXCEPT ![s] = "commit"]
         /\ resp' = resp
    ELSE IF fallBack
    THEN /\ calls' = [calls EXCEPT ![s] =
                        Append(Resolved(s, ""), Call("queryUrl"))]
         /\ pc' = [pc EXCEPT ![s] = "queryUrl"]
         /\ UNCHANGED <<loc, resp>>
    ELSE /\ calls' = [calls EXCEPT ![s] = Resolved(s, "")]
         /\ resp' = [resp EXCEPT ![s] = successResponse]
         /\ pc' = [pc EXCEPT ![s] = "done"]
         /\ loc' = loc

\* the query by r2Key returns
QueryR2KeyDone(s) ==
    /\ pc[s] = "queryR2Key"
    /\ \E ok \in BOOLEAN :
         IF ok
         THEN AfterQuery(s, docsWhereR2Key(links, req[s].videoKey), deleteFallsBack(req[s].rev))
         ELSE DeleteCatch(s, FirestoreError)
    /\ UNCHANGED <<disk, storage, links, now, started, req, handed>>

\* the fallback query by url returns
QueryUrlDone(s) ==
    /\ pc[s] = "queryUrl"
    /\ \E ok \in BOOLEAN :
         IF ok
         THEN AfterQuery(s, docsWhereUrl(links, longUrlOf(req[s].videoKey)), FALSE)
         ELSE DeleteCatch(s, FirestoreError)
    /\ UNCHANGED <<disk, storage, links, now, started, req, handed>>

\* the batch commit returns
CommitDone(s) ==
    /\ pc[s] = "commit"
    /\ \E ok \in BOOLEAN :
         IF ok
         THEN /\ links' = commitDeletes(links, loc[s].snapshot)
              /\ calls' = [calls EXCEPT ![s] = Resolved(s, "")]
              /\ resp' = [resp EXCEPT ![s] = successResponse]
              /\ pc' = [pc EXCEPT ![s] = "done"]
              /\ loc' = loc
         ELSE /\ links' = links
              /\ DeleteCatch(s, FirestoreError)
    /\ UNCHANGED <<disk, storage, now, started, req, handed>>

\* -------------------------------------------------- shorten: POST /api/shorten

\* a long url that is no media url (the recorder form)
FormUrl == <<"F">>

\* the longUrl values a client sends: the url of a stored media blob, the form, or none
LongUrls == {longUrlOf(o.key) : o \in {x \in storage : endsWith(x.key, MP4)}}
                \cup {FormUrl, undefined}

\* the type values a client sends, "" when absent
ShortenTypes == {"", "video"}

\* the shortLinks document /api/shorten writes: { url, type: type || 'general', createdAt }
shortenDocOf(longUrl, type) ==
    [NoDoc EXCEPT !.exists = TRUE, !.url = longUrl,
                  !.type = IF type # "" THEN type ELSE "general"]

\* res.json({ shortUrl: `${serverUrl}/s/${shortId}` })
shortenResponse(shortId) == [NoResp EXCEPT !.status = 200, !.publicUrl = <<"s", shortId>>]

\* the whole handler: its one await is the document set
Shorten(s, rev) ==
    /\ Free(s)
    /\ started' = started + 1
    /\ \E longUrl \in LongUrls, type \in ShortenTypes, shortId \in ShortIds, ok \in BOOLEAN :
         /\ req' = [req EXCEPT ![s] =
                      [NoReq EXCEPT !.kind = "shorten", !.rev = rev,
                                    !.longUrl = longUrl, !.type = type]]
         /\ IF ~truthy(longUrl)
            THEN /\ ok
                 /\ shortId = CHOOSE id \in ShortIds : TRUE
                 /\ resp' = [resp EXCEPT ![s] = errorResponse(400, "No URL provided")]
                 /\ calls' = [calls EXCEPT ![s] = <<>>]
                 /\ loc' = [loc EXCEPT ![s] = NoLoc]
                 /\ UNCHANGED <<links, handed>>
            ELSE /\ loc' = [loc EXCEPT ![s] = [NoLoc EXCEPT !.shortId = shortId]]
                 /\ calls' = [calls EXCEPT ![s] =
                                <<[Call("setLink") EXCEPT
                                     !.result = IF ok THEN "ok" ELSE "failed",
                                     !.error = IF ok THEN "" ELSE FirestoreError]>>]
                 /\ IF ok
                    THEN /\ links' = SetDoc(links, shortId, shortenDocOf(longUrl, type))
                         /\ resp' = [resp EXCEPT ![s] = shortenResponse(shortId)]
                         /\ handed' = HandOut(shortId, longUrl)
                    ELSE /\ resp' = [resp EXCEPT ![s] = errorResponse(500, FirestoreError)]
                         /\ UNCHANGED <<links, handed>>
    /\ pc' = [pc EXCEPT ![s] = "done"]
    /\ UNCHANGED <<disk, storage, now>>

\* ------------------------------------------------------ short-link resolvers

\* res.redirect(target)
redirectResponse(target) == [NoResp EXCEPT !.status = 302, !.location = target]

\* res.sendFile(.../public/watch.html)
watchPageResponse == [NoResp EXCEPT !.status = 200, !.page = "watch.html"]

\* `/v/${req.params.id}`
watchPathOf(id) == <<"/", "v", "/", id>>

\* a GET /v/:id without the check that the document exists
resolveVUnchecked(rev, doc, ok) ==
    IF rev # "server" THEN watchPageResponse
    ELSE IF ~ok THEN errorResponse(500, "Server Error")
    ELSE redirectResponse(doc.url)

\* GET /v/:id: server.js looks the document up and redirects; the gatekeeper
\* revisions serve the watch page without reading anything
resolveV(rev, doc, ok) ==
    IF rev # "server" THEN watchPageResponse
    ELSE IF ~ok THEN errorResponse(500, "Server Error")
    ELSE IF ~doc.exists THEN errorResponse(404, "Link not found")
    ELSE redirectResponse(doc.url)

\* GET /s/:id: part_005 redirects every record to its url; part_000 and part_004
\* send a video record to the watch page
resolveS(rev, id, doc, ok) ==
    IF ~ok THEN errorResponse(500, "Server Error")
    ELSE IF ~doc.exists
         THEN errorResponse(404, IF rev = "p005" THEN "Link not found or expired."
                                 ELSE "Link not found")
    ELSE IF doc.type = "video" /\ rev # "p005" THEN redirectResponse(watchPathOf(id))
    ELSE redirectResponse(doc.url)

\* a handler that answers every requester
getSecureVideoUnchecked(rev, requesterEmail, doc, ok) ==
    IF ~ok THEN errorResponse(500, "Server Error")
    ELSE IF ~doc.exists THEN errorResponse(404, "Not found")
    ELSE [NoResp EXCEPT !.status = 200, !.url = doc.url,
                        !.transcription = IF rev \in {"p000", "p004"}
                                          THEN doc.transcription ELSE ""]

\* GET /api/get-secure-video/:id, after verifyToken
getSecureVideo(rev, requesterEmail, doc, ok) ==
    IF ~ok THEN errorResponse(500, "Server Error")
    ELSE IF ~doc.exists THEN errorResponse(404, "Not found")
    ELSE IF requesterEmail = undefined THEN errorResponse(500, "Server Error")
    ELSE IF toLowerCase(requesterEmail)
              # (IF truthy(doc.email) THEN toLowerCase(doc.email) ELSE <<>>)
         THEN errorResponse(403, "Access Denied")
    ELSE [NoResp EXCEPT !.status = 200, !.url = doc.url,
                        !.transcription = IF rev \in {"p000", "p004"}
                                          THEN doc.transcription ELSE ""]

\* the one awaited call of a resolver, settled: the document read
docRead(ok) ==
    <<[Call("getDoc") EXCEPT !.result = IF ok THEN "ok" ELSE "failed",
                             !.error = IF ok THEN "" ELSE FirestoreError]>>

\* a read-only request in slot s answered with r, after reading doc; log holds
\* the calls it made
Answer(s, kind, rev, route, id, email, doc, r, log) ==
    /\ Free(s)
    /\ req' = [req EXCEPT ![s] = [NoReq EXCEPT !.kind = kind, !.rev = rev, !.route = route,
                                               !.id = id, !.email = email]]
    /\ loc' = [loc EXCEPT ![s] = [NoLoc EXCEPT !.doc = doc]]
    /\ calls' = [calls EXCEPT ![s] = log]
    /\ resp' = [resp EXCEPT ![s] = r]
    /\ pc' = [pc EXCEPT ![s] = "done"]
    /\ UNCHANGED <<disk, storage, links, now, started, handed>>

ResolveV(s, rev) ==
    \E id \in ShortIds, ok \in BOOLEAN :
        Answer(s, "resolve", rev, "v", id, undefined, links[id], resolveV(rev, links[id], ok),
               IF rev = "server" THEN docRead(ok) ELSE <<>>)

ResolveS(s, rev) ==
    \E id \in ShortIds, ok \in BOOLEAN :
        Answer(s, "resolve", rev, "s", id, undefined, links[id],
               resolveS(rev, id, links[id], ok), docRead(ok))

\* the emails of the callers of get-secure-video: the owner in another
\* case and a stranger next to the caller emails of the delete
RequesterEmails == CallerEmails \cup {<<"A", "@", "b">>, <<"x", "@", "b">>}

GetSecureVideo(s, rev) ==
    \E id \in ShortIds, email \in RequesterEmails, ok \in BOOLEAN :
        Answer(s, "secure", rev, "api", id, email, links[id],
               getSecureVideo(rev, email, links[id], ok), docRead(ok))

\* ------------------------------------------------------ list: GET /api/my-videos

\* the characters of the model in the order of their code points, which is the
\* order ListObjectsV2 returns keys in
CodeOrder ==
    <<" ", "!", "%", "-", ".", "/", "0", "1", "2", "3", "4", "5", "6", "7", "8", "9",
      "@", "A", "B", "G", "I", "O", "U", "X", "_",
      "a", "b", "c", "d", "e", "g", "i", "l", "m", "n", "o", "p", "r", "s", "t", "u", "w", "x">>

Code(c) == CHOOSE i \in DOMAIN CodeOrder : CodeOrder[i] = c

RECURSIVE KeyLess(_, _)
KeyLess(a, b) ==
    IF b = <<>> THEN FALSE
    ELSE IF a = <<>> THEN TRUE
    ELSE IF Head(a) # Head(b) THEN Code(Head(a)) < Code(Head(b))
    ELSE KeyLess(Tail(a), Tail(b))

\* the objects of a set as a sequence in ascending key order
RECURSIVE InKeyOrder(_)
InKeyOrder(objs) ==
    IF objs = {} THEN <<>>
    ELSE LET first == CHOOSE o \in objs : \A x \in objs \ {o} : KeyLess(o.key, x.key)
         IN  <<first>> \o InKeyOrder(objs \ {first})

\* a listing that is not narrowed to a prefix
ListObjectsAll(st, prefix) == InKeyOrder(st)

\* data.Contents of ListObjectsV2Command({ Prefix: prefix })
ListObjects(st, prefix) == InKeyOrder({o \in st : startsWith(o.key, prefix)})

\* str.split('/')
RECURSIVE split(_)
split(str) ==
    LET i == IndexOf(str, SLASH)
    IN  IF i = 0 THEN <<str>>
        ELSE <<SubSeq(str, 1, i - 1)>> \o split(SubSeq(str, i + 1, Len(str)))

\* the value standing for a URIError thrown by decodeURIComponent
uriError == <<"URIError">>

\* decodeURIComponent: %20 is a space, a % that starts no escape throws
RECURSIVE decodeURIComponent(_)
decodeURIComponent(str) ==
    IF str = <<>> THEN <<>>
    ELSE IF Head(str) # "%"
         THEN LET rest == decodeURIComponent(Tail(str))
              IN  IF rest = uriError THEN uriError ELSE <<Head(str)>> \o rest
    ELSE IF Len(str) >= 3 /\ str[2] = "2" /\ str[3] = "0"
         THEN LET rest == decodeURIComponent(SubSeq(str, 4, Len(str)))
              IN  IF rest = uriError THEN uriError ELSE <<" ">> \o rest
    ELSE uriError

\* i.Key.endsWith('.mp4') || i.Key.endsWith('.webm'); part_003 keeps .webm only
isMediaKey(rev, key) ==
    IF rev = "p003" THEN endsWith(key, WEBM) ELSE endsWith(key, MP4) \/ endsWith(key, WEBM)

\* a category read from the owner segment of the key
listFormNameSecond(key) ==
    LET parts == split(key)
    IN  IF Len(parts) > 3 THEN decodeURIComponent(parts[2]) ELSE GENERAL

\* parts.length > 3 ? decodeURIComponent(parts[2]) : "General"
listFormNameOf(key) ==
    LET parts == split(key)
    IN  IF Len(parts) > 3 THEN decodeURIComponent(parts[3]) ELSE GENERAL

\* the entry the map callback builds for one object of the listing
entryOf(rev, o, keys) ==
    IF rev = "p003"
    THEN LET textKey == replaceFirst(o.key, WEBM, TXT)
         IN  [key |-> o.key, url |-> longUrlOf(o.key),
              textUrl |-> IF textKey \in keys THEN longUrlOf(textKey) ELSE undefined,
              uploadedAt |-> o.lastModified, formName |-> undefined]
    ELSE [key |-> o.key, url |-> longUrlOf(o.key),
          textUrl |-> longUrlOf(replaceMediaExt(o.key)),
          uploadedAt |-> o.lastModified, formName |-> listFormNameOf(o.key)]

\* (data.Contents || []).filter(...).map(...)
mapEntries(rev, contents) ==
    LET keys == {contents[i].key : i \in DOMAIN contents}
        media == SelectSeq(contents, LAMBDA o : isMediaKey(rev, o.key))
    IN  [i \in DOMAIN media |-> entryOf(rev, media[i], keys)]

\* the place of a new element in a sorted prefix: after every element that
\* the comparator b.uploadedAt - a.uploadedAt does not put behind it
RECURSIVE insertSorted(_, _)
insertSorted(sorted, x) ==
    IF sorted = <<>> THEN <<x>>
    ELSE IF Head(sorted).uploadedAt >= x.uploadedAt
         THEN <<Head(sorted)>> \o insertSorted(Tail(sorted), x)
    ELSE <<x>> \o sorted

\* a response that keeps the order of the listing
sortVideosNot(videos) == videos

\* videos.sort((a, b) => b.uploadedAt - a.uploadedAt): a stable sort
RECURSIVE sortVideos(_)
sortVideos(videos) ==
    IF videos = <<>> THEN <<>>
    ELSE insertSorted(sortVideos(SubSeq(videos, 1, Len(videos) - 1)), videos[Len(videos)])

\* res.json({ videos })
listResponse(videos) == [NoResp EXCEPT !.status = 200, !.videos = videos]

\* `users/${emailFolder}/`, `users/${req.user.uid}/` in part_003
listPrefixOf(rev, r) ==
    IF rev = "p003" THEN Join(<<USERS, r.uid, SLASH>>) ELSE ownerPrefixOf(r.email)

\* the handler runs up to the await of ListObjectsV2; server.js answers a
\* caller without email at once
ListBody(s, base, log, rev, user) ==
    /\ req' = [req EXCEPT ![s] =
                 [base EXCEPT !.kind = "list", !.rev = rev,
                              !.email = user.email, !.uid = user.uid]]
    /\ loc' = [loc EXCEPT ![s] = NoLoc]
    /\ IF rev # "p003" /\ ~truthy(user.email)
       THEN /\ resp' = [resp EXCEPT ![s] = listResponse(<<>>)]
            /\ calls' = [calls EXCEPT ![s] = log]
            /\ pc' = [pc EXCEPT ![s] = "done"]
       ELSE /\ resp' = [resp EXCEPT ![s] = NoResp]
            /\ calls' = [calls EXCEPT ![s] = Append(log, Call("listObjects"))]
            /\ pc' = [pc EXCEPT ![s] = "list"]

\* what the handler answers for the listing data.Contents
listAnswer(rev, contents) ==
    LET videos == mapEntries(rev, contents)
    IN  IF rev = "p003" THEN listResponse(sortVideos(videos))
        ELSE IF \E i \in DOMAIN videos : videos[i].formName = uriError
             THEN listResponse(<<>>)
        ELSE listResponse(sortVideos(videos))

\* ListObjectsV2 returns: the entries are built, sorted and sent; on a
\* rejection server.js sends an empty list and part_003 a 500
ListDone(s) ==
    /\ pc[s] = "list"
    /\ \E ok \in BOOLEAN :
         IF ok
         THEN /\ resp' = [resp EXCEPT ![s] =
                            listAnswer(req[s].rev,
                                       ListObjects(storage, listPrefixOf(req[s].rev, req[s])))]
              /\ calls' = [calls EXCEPT ![s] = Resolved(s, "")]
         ELSE /\ resp' = [resp EXCEPT ![s] =
                            IF req[s].rev = "p003"
                            THEN errorResponse(500, "Failed to list videos")
                            ELSE listResponse(<<>>)]
              /\ calls' = [calls EXCEPT ![s] = Rejected(s, R2Error)]
    /\ pc' = [pc EXCEPT ![s] = "done"]
    /\ UNCHANGED <<disk, storage, links, now, started, req, loc, handed>>

\* ------------------------------------------- summarization: POST /api/analyze-text

\* the body R2 answers a GET of a key that holds nothing with (status 404)
NoSuchKeyBody == "<Error><Code>NoSuchKey</Code></Error>"

\* the textUrl values a client sends: the url of a stored transcript, the url
\* of a transcript that is not stored, or none
TextUrls ==
    {longUrlOf(o.key) : o \in {x \in storage : endsWith(x.key, TXT)}}
        \cup {longUrlOf(TXT), undefined}

\* what (await fetch(url)).text() yields: fetch resolves for every HTTP
\* status, so a missing object yields the body of the 404 response
fetchBody(st, url) ==
    IF \E o \in st : longUrlOf(o.key) = url
    THEN (CHOOSE o \in st : longUrlOf(o.key) = url).body
    ELSE NoSuchKeyBody

\* gpt.choices[0].message.content of the completions the service returns
Summaries == {"a summary", ""}

FetchError == "fetch failed"
NoChoiceError == "Cannot read properties of undefined (reading 'message')"
OpenAiError == "429 You exceeded your current quota"

\* an error response that carries the message of the failure
analyzeErrorResponseWithCause(rev, message) == errorResponse(500, message)

\* res.status(500).json({ error: "AI Error" }), "AI Analysis failed" in part_003
analyzeErrorResponse(rev, message) ==
    errorResponse(500, IF rev = "p003" THEN "AI Analysis failed" ELSE "AI Error")

\* res.json({ analysis: gpt.choices[0].message.content })
analysisResponse(content) == [NoResp EXCEPT !.status = 200, !.analysis = content]

\* the catch block of the handler
AnalyzeCatch(s, message) ==
    /\ resp' = [resp EXCEPT ![s] = analyzeErrorResponse(req[s].rev, message)]
    /\ pc' = [pc EXCEPT ![s] = "done"]
    /\ calls' = [calls EXCEPT ![s] = Rejected(s, message)]
    /\ loc' = loc

\* the handler runs up to the await of fetch(req.body.textUrl); log holds the
\* calls the middleware made
AnalyzeBody(s, base, log) ==
    \E textUrl \in TextUrls :
        /\ req' = [req EXCEPT ![s] = [base EXCEPT !.kind = "analyze", !.textUrl = textUrl]]
        /\ loc' = [loc EXCEPT ![s] = NoLoc]
        /\ resp' = [resp EXCEPT ![s] = NoResp]
        /\ calls' = [calls EXCEPT ![s] = Append(log, Call("fetch"))]
        /\ pc' = [pc EXCEPT ![s] = "fetch"]

\* fetch settles: it rejects for a url that is none and when the network
\* fails; the body read is issued
FetchDone(s) ==
    /\ pc[s] = "fetch"
    /\ \E ok \in BOOLEAN :
         IF ok
         THEN /\ req[s].textUrl # undefined
              /\ calls' = [calls EXCEPT ![s] = Append(Resolved(s, ""), Call("text"))]
              /\ pc' = [pc EXCEPT ![s] = "text"]
              /\ UNCHANGED <<loc, resp>>
         ELSE AnalyzeCatch(s, FetchError)
    /\ UNCHANGED <<disk, storage, links, now, started, req, handed>>

\* textRes.text() settles; the summarization call is issued with the text
TextDone(s) ==
    /\ pc[s] = "text"
    /\ \E ok \in BOOLEAN :
         IF ok
         THEN LET originalText == fetchBody(storage, req[s].textUrl)
              IN  /\ loc' = [loc EXCEPT ![s].text = originalText]
                  /\ calls' = [calls EXCEPT ![s] =
                                 Append(Resolved(s, originalText), Call("summarize"))]
                  /\ pc' = [pc EXCEPT ![s] = "summarize"]
                  /\ resp' = resp
         ELSE AnalyzeCatch(s, FetchError)
    /\ UNCHANGED <<disk, storage, links, now, started, req, handed>>

\* the completion settles: its first choice is sent, a completion without
\* choices throws
SummarizeDone(s) ==
    /\ pc[s] = "summarize"
    /\ \E outcome \in {"ok", "no choices", "failed"}, content \in Summaries :
         IF outcome = "ok"
         THEN /\ resp' = [resp EXCEPT ![s] = analysisResponse(content)]
              /\ calls' = [calls EXCEPT ![s] = Resolved(s, content)]
              /\ pc' = [pc EXCEPT ![s] = "done"]
              /\ loc' = loc
         ELSE /\ content = CHOOSE c \in Summaries : TRUE
              /\ AnalyzeCatch(s, IF outcome = "failed" THEN OpenAiError ELSE NoChoiceError)
    /\ UNCHANGED <<disk, storage, links, now, started, req, handed>>

\* ------------------------------------------------------ middleware: verifyToken

\* the Authorization headers of the model: none, another scheme, a bearer token
AuthHeaders ==
    {<<>>, <<"Basic", "credentials">>,
     <<"Bearer", "idToken">>, <<"Bearer", "accessToken">>, <<"Bearer", "junk">>}

\* a token taken from a header of any scheme
bearerTokenOfAnyScheme(header) == IF header # <<>> THEN header[2] ELSE ""

\* req.headers.authorization?.split('Bearer ')[1], "" when there is none
bearerTokenOf(header) ==
    IF header # <<>> /\ header[1] = "Bearer" THEN header[2] ELSE ""

\* the identities a token stands for: decoded ID token, or userinfo's sub and email
Identities ==
    {[uid |-> <<"U">>, email |-> <<"a", "@", "b">>],
     [uid |-> <<"U">>, email |-> undefined]}

\* the revisions whose verifyToken asks the userinfo endpoint after a failed
\* ID-token verification
twoStage(rev) == rev \in {"p001", "p002a", "p003"}

\* the ways the userinfo stage ends: the userinfo, a response that is not ok,
\* a rejected fetch, a body that is no JSON
UserinfoOutcomes == {"ok", "not ok", "fetch failed", "invalid json"}

\* next(): the route handler runs up to its first await
Enter(s, user, log) ==
    IF req[s].kind = "list" THEN ListBody(s, req[s], log, req[s].rev, user)
    ELSE IF req[s].kind = "analyze" THEN AnalyzeBody(s, req[s], log)
    ELSE \E videoKey \in VideoKeys :
             DeleteBody(s, req[s], log, req[s].rev, user.email, videoKey)

\* a refusal whose body carries the error of the stage that failed
RejectWithCause(s, status, message, log) ==
    /\ resp' = [resp EXCEPT ![s] = errorResponse(status, log[Len(log)].error)]
    /\ calls' = [calls EXCEPT ![s] = log]
    /\ pc' = [pc EXCEPT ![s] = "done"]
    /\ UNCHANGED <<req, loc>>

\* res.status(status).json({ error }) of the middleware
Reject(s, status, message, log) ==
    /\ resp' = [resp EXCEPT ![s] = errorResponse(status, message)]
    /\ calls' = [calls EXCEPT ![s] = log]
    /\ pc' = [pc EXCEPT ![s] = "done"]
    /\ UNCHANGED <<req, loc>>

\* a request to a protected route arrives: verifyToken runs up to the await
\* of verifyIdToken
VerifyStart(s, rev, kind) ==
    /\ Free(s)
    /\ started' = IF kind \in {"list", "analyze"} THEN started ELSE started + 1
    /\ \E header \in AuthHeaders :
         LET token == bearerTokenOf(header)
         IN  IF token = ""
             THEN /\ resp' = [resp EXCEPT ![s] = errorResponse(401, "Unauthorized")]
                  /\ pc' = [pc EXCEPT ![s] = "done"]
                  /\ calls' = [calls EXCEPT ![s] = <<>>]
                  /\ req' = [req EXCEPT ![s] =
                               [NoReq EXCEPT !.kind = kind, !.rev = rev,
                                             !.authorization = IF header = <<>> THEN ""
                                                               ELSE header[1]]]
             ELSE /\ resp' = [resp EXCEPT ![s] = NoResp]
                  /\ pc' = [pc EXCEPT ![s] = "verifyIdToken"]
                  /\ calls' = [calls EXCEPT ![s] = <<Call("verifyIdToken")>>]
                  /\ req' = [req EXCEPT ![s] =
                               [NoReq EXCEPT !.kind = kind, !.rev = rev,
                                             !.authorization = header[1],
                                             !.token = token]]
    /\ loc' = [loc EXCEPT ![s] = NoLoc]
    /\ UNCHANGED <<disk, storage, links, now, handed>>

\* verifyIdToken settles: the handler is entered with the decoded token, or
\* the request is refused, or (two-stage) the userinfo endpoint is asked
VerifyIdTokenDone(s) ==
    /\ pc[s] = "verifyIdToken"
    /\ \E ok \in BOOLEAN, user \in Identities :
         IF ok
         THEN /\ req[s].token = "idToken"
              /\ Enter(s, user, Resolved(s, "idToken"))
         ELSE /\ user = CHOOSE u \in Identities : TRUE
              /\ IF twoStage(req[s].rev)
                 THEN /\ calls' = [calls EXCEPT ![s] =
                                     Append(Rejected(s, "auth/argument-error"),
                                            Call("userinfo"))]
                      /\ pc' = [pc EXCEPT ![s] = "userinfo"]
                      /\ UNCHANGED <<req, loc, resp>>
                 ELSE Reject(s, 403, "Forbidden", Rejected(s, "auth/argument-error"))
    /\ UNCHANGED <<disk, storage, links, now, started, handed>>

\* the userinfo stage settles: the handler is entered with { uid: sub, email },
\* or the request is refused
UserinfoDone(s) ==
    /\ pc[s] = "userinfo"
    /\ \E outcome \in UserinfoOutcomes, user \in Identities :
         IF outcome = "ok"
         THEN /\ req[s].token = "accessToken"
              /\ Enter(s, user, Resolved(s, "accessToken"))
         ELSE /\ user = CHOOSE u \in Identities : TRUE
              /\ Reject(s, 403, "Forbidden", Rejected(s, outcome))
    /\ UNCHANGED <<disk, storage, links, now, started, handed>>

\* ------------------------------- rename-based upload: part_001, part_002, part_003

\* values of the multipart field "folder" of the rename-based revisions: the
\* owner's uid in part_003, a folder name in part_001 and part_002
RenameFolders == {undefined, <<"U">>, <<"U", ".", "w", "e", "b", "m">>}

\* req.user.uid of the callers whose token verified
CallerUids == {<<"U">>}

PUBLIC_UPLOADS ==
    <<"p", "u", "b", "l", "i", "c", "_", "u", "p", "l", "o", "a", "d", "s">>
UNSORTED == <<"U", "n", "s", "o", "r", "t", "e", "d">>

\* req.file.path + '.webm'
newPathOf(path) == Append(path, ".webm")

\* req.body.folder || "Unsorted"
folderOf(folder) == IF truthy(folder) THEN folder ELSE UNSORTED

\* `rec_${Date.now()}.webm`
fileNameOf(t) == Join(<<REC, Digit(t), WEBM>>)

\* the media key, per revision: `public_uploads/${folder}/${fileName}`,
\* `${req.user.uid}/${folder}/${fileName}`, `users/${ownerUid}/${fileName}`
renameKeyOf(rev, uid, folder, t) ==
    IF rev = "p001" THEN Join(<<PUBLIC_UPLOADS, SLASH, folderOf(folder), SLASH, fileNameOf(t)>>)
    ELSE IF rev = "p002a" THEN Join(<<uid, SLASH, folderOf(folder), SLASH, fileNameOf(t)>>)
    ELSE Join(<<USERS, folder, SLASH, fileNameOf(t)>>)

\* r2Key.replace('.webm', '.txt')
renameTextKeyOf(r2Key) == replaceFirst(r2Key, WEBM, TXT)

\* what the stream of the renamed file carries
WebmBody(file) == "webm:" \o file

\* res.json({ success: true, publicUrl: `${R2_PUBLIC_URL}/${r2Key}`, transcription })
renameUploadResponse(r2Key, text) ==
    [NoResp EXCEPT !.status = 200, !.success = TRUE, !.url = longUrlOf(r2Key),
                   !.transcription = text]

\* the catch block: part_002 removes the renamed file, part_001 and part_003
\* only answer
RenameCatch(s, message) ==
    /\ disk' = IF req[s].rev = "p002a" THEN unlinkIfExists(disk, loc[s].newPath) ELSE disk
    /\ resp' = [resp EXCEPT ![s] = errorResponse(500, message)]
    /\ pc' = [pc EXCEPT ![s] = "done"]
    /\ calls' = [calls EXCEPT ![s] = Rejected(s, message)]
    /\ loc' = loc

\* multer stores the file, then the handler renames it and runs up to the await
\* of the transcription; part_003 first wants the owner uid
RenameUploadStart(s, rev, folders) ==
    /\ Free(s)
    /\ started' = started + 1
    /\ \E hasFile \in BOOLEAN, folder \in folders, uid \in CallerUids :
         LET file == ToString(started + 1)
             path == <<file>>
         IN  /\ req' = [req EXCEPT ![s] =
                          [NoReq EXCEPT !.kind = "upload", !.rev = rev,
                                        !.hasFile = hasFile,
                                        !.file = IF hasFile THEN file ELSE "",
                                        !.folder = folder,
                                        !.uid = IF rev = "p003" THEN undefined ELSE uid]]
             /\ IF ~hasFile
                THEN /\ disk' = disk
                     /\ loc' = [loc EXCEPT ![s] = NoLoc]
                     /\ calls' = [calls EXCEPT ![s] = <<>>]
                     /\ resp' = [resp EXCEPT ![s] = errorResponse(400, "No file")]
                     /\ pc' = [pc EXCEPT ![s] = "done"]
                ELSE IF rev = "p003" /\ ~truthy(folder)
                THEN /\ disk' = disk \cup {path}
                     /\ loc' = [loc EXCEPT ![s] = NoLoc]
                     /\ calls' = [calls EXCEPT ![s] = <<>>]
                     /\ resp' = [resp EXCEPT ![s] =
                                   errorResponse(400, "Missing Form Owner UID")]
                     /\ pc' = [pc EXCEPT ![s] = "done"]
                ELSE /\ disk' = disk \cup {newPathOf(path)}
                     /\ loc' = [loc EXCEPT ![s] = [NoLoc EXCEPT !.newPath = newPathOf(path)]]
                     /\ calls' = [calls EXCEPT ![s] = <<Call("transcribe")>>]
                     /\ resp' = [resp EXCEPT ![s] = NoResp]
                     /\ pc' = [pc EXCEPT ![s] = "renameTranscribe"]
    /\ UNCHANGED <<storage, links, now, handed>>

\* the transcription returns; the key is built from Date.now() and the media put is issued
RenameTranscribeDone(s, texts) ==
    /\ pc[s] = "renameTranscribe"
    /\ \E ok \in BOOLEAN, text \in texts, t \in now..MaxClock :
         IF ok
         THEN /\ now' = t
              /\ loc' = [loc EXCEPT ![s].text = text,
                                    ![s].r2Key = renameKeyOf(req[s].rev, req[s].uid,
                                                             req[s].folder, t)]
              /\ calls' = [calls EXCEPT ![s] =
                             Append(Resolved(s, text), Call("putMedia"))]
              /\ pc' = [pc EXCEPT ![s] = "renamePutMedia"]
              /\ UNCHANGED <<disk, resp>>
         ELSE /\ text = CHOOSE x \in texts : TRUE
              /\ t = now
              /\ now' = now
              /\ RenameCatch(s, WhisperError)
    /\ UNCHANGED <<storage, links, started, req, handed>>

\* the media PutObject returns; the transcript PutObject is issued
RenamePutMediaDone(s) ==
    /\ pc[s] = "renamePutMedia"
    /\ \E ok \in BOOLEAN :
         IF ok
         THEN /\ storage' = PutObject(storage, loc[s].r2Key, WebmBody(req[s].file))
              /\ calls' = [calls EXCEPT ![s] =
                             Append(Resolved(s, ""), Call("putText"))]
              /\ pc' = [pc EXCEPT ![s] = "renamePutText"]
              /\ UNCHANGED <<disk, loc, resp>>
         ELSE /\ storage' = storage
              /\ RenameCatch(s, R2Error)
    /\ UNCHANGED <<links, now, started, req, handed>>

\* the transcript PutObject returns; the renamed file is removed and the response is sent
RenamePutTextDone(s) ==
    /\ pc[s] = "renamePutText"
    /\ \E ok \in BOOLEAN :
         IF ok
         THEN /\ storage' = PutObject(storage, renameTextKeyOf(loc[s].r2Key), loc[s].text)
              /\ disk' = disk \ {loc[s].newPath}
              /\ resp' = [resp EXCEPT ![s] = renameUploadResponse(loc[s].r2Key, loc[s].text)]
              /\ calls' = [calls EXCEPT ![s] = Resolved(s, "")]
              /\ pc' = [pc EXCEPT ![s] = "done"]
              /\ loc' = loc
         ELSE /\ storage' = storage
              /\ RenameCatch(s, R2Error)
    /\ UNCHANGED <<links, now, started, req, handed>>

\* DELETE /api/delete-video of part_003, for the uid of the verified token: the
\* handler runs up to the await of the media DeleteObject
DeleteUidStart(s, rev) ==
    /\ Free(s)
    /\ started' = started + 1
    /\ \E uid \in CallerUids, videoKey \in VideoKeys :
         /\ req' = [req EXCEPT ![s] =
                      [NoReq EXCEPT !.kind = "delete", !.rev = rev, !.uid = uid,
                                    !.videoKey = videoKey]]
         /\ loc' = [loc EXCEPT ![s] = NoLoc]
         /\ IF videoKey = undefined
            THEN /\ resp' = [resp EXCEPT ![s] = errorResponse(500, NoKeyError)]
                 /\ calls' = [calls EXCEPT ![s] = <<>>]
                 /\ pc' = [pc EXCEPT ![s] = "done"]
            ELSE IF ~startsWith(videoKey, Join(<<USERS, uid, SLASH>>))
            THEN /\ resp' = [resp EXCEPT ![s] =
                               errorResponse(403, "Access denied to this file")]
                 /\ calls' = [calls EXCEPT ![s] = <<>>]
                 /\ pc' = [pc EXCEPT ![s] = "done"]
            ELSE /\ resp' = [resp EXCEPT ![s] = NoResp]
                 /\ calls' = [calls EXCEPT ![s] = <<Call("deleteMedia")>>]
                 /\ pc' = [pc EXCEPT ![s] = "delMedia"]
    /\ UNCHANGED <<disk, storage, links, now, handed>>

\* ------------------------------------------------ two owners of one bucket

\* two owner emails that differ after lower-casing
OwnerEmails == {<<"a", ".", "b", "@", "x">>, <<"a", "_", "b", "@", "x">>}

\* GET /api/my-videos of a caller whose token verified with one of emails
ListStartAs(s, rev, emails) ==
    /\ Free(s)
    /\ \E email \in emails :
         ListBody(s, NoReq, <<>>, rev, [uid |-> <<"U">>, email |-> email])
    /\ UNCHANGED <<disk, storage, links, now, started, handed>>

\* DELETE /api/delete-video of a caller whose token verified with one of emails
DeleteStartAs(s, rev, emails) ==
    /\ Free(s)
    /\ started' = started + 1
    /\ \E email \in emails, videoKey \in VideoKeys :
         DeleteBody(s, NoReq, <<>>, rev, email, videoKey)
    /\ UNCHANGED <<disk, storage, links, now, handed>>

\* ---------------------------------------------------------- specifications

\* two uploads handled at the same time by server.js, each slot serving one
NextConc ==
    \/ \E s \in Slots : UploadStart(s, "server", FolderFields, {<<"I">>})
    \/ \E s \in Slots : CompressDone(s)
    \/ \E s \in Slots : TranscribeDone(s, {"hello"})
    \/ \E s \in Slots : PutMediaDone(s)
    \/ \E s \in Slots : PutTextDone(s)
    \/ \E s \in Slots : SetLinkDone(s)

SpecConc == Init /\ [][NextConc]_vars

\* server.js serving one request at a time, next to the shortener of part_005
\* that writes into the same collection
Next ==
    \/ started < MaxRequests /\ UploadStart(1, "server", Folders, {<<"I">>})
    \/ CompressDone(1)
    \/ TranscribeDone(1, {"hello"})
    \/ PutMediaDone(1)
    \/ PutTextDone(1)
    \/ SetLinkDone(1)
    \/ started < MaxRequests /\ DeleteStart(1, "server")
    \/ DelMediaDone(1)
    \/ DelTextDone(1)
    \/ QueryR2KeyDone(1)
    \/ QueryUrlDone(1)
    \/ CommitDone(1)
    \/ started < MaxRequests /\ Shorten(1, "p005")
    \/ ResolveV(1, "server")
    \/ Finish(1)

Spec == Init /\ [][Next]_vars

\* the revisions of the upload pipeline and of the resolvers over one collection
NextRev ==
    \/ \E rev \in {"server", "p000", "p004", "p005"} :
          started < MaxRevRequests /\ UploadStart(1, rev, {<<"A", "@", "b">>}, {<<"I">>})
    \/ CompressDone(1)
    \/ TranscribeDone(1, Texts)
    \/ PutMediaDone(1)
    \/ PutTextDone(1)
    \/ SetLinkDone(1)
    \/ started < MaxRevRequests /\ Shorten(1, "p005")
    \/ \E rev \in {"server", "p000", "p005"} : ResolveV(1, rev)
    \/ \E rev \in {"p000", "p005"} : ResolveS(1, rev)
    \/ \E rev \in {"p000", "p004", "p005"} : GetSecureVideo(1, rev)
    \/ Finish(1)

SpecRev == Init /\ [][NextRev]_vars

\* server.js and part_003 behind verifyToken, one request at a time, next to
\* the uploads of server.js
NextAuth ==
    \/ started < MaxAuthRequests /\ UploadStart(1, "server", Folders, Subfolders)
    \/ CompressDone(1)
    \/ TranscribeDone(1, {"hello"})
    \/ PutMediaDone(1)
    \/ PutTextDone(1)
    \/ SetLinkDone(1)
    \/ \E rev \in {"server", "p003"} : VerifyStart(1, rev, "list")
    \/ started < MaxAuthRequests /\ VerifyStart(1, "server", "delete")
    \/ VerifyIdTokenDone(1)
    \/ UserinfoDone(1)
    \/ ListDone(1)
    \/ DelMediaDone(1)
    \/ DelTextDone(1)
    \/ QueryR2KeyDone(1)
    \/ QueryUrlDone(1)
    \/ CommitDone(1)
    \/ Finish(1)

SpecAuth == Init /\ [][NextAuth]_vars

\* the rename-based uploads of part_001, part_002 and part_003 and the delete
\* of part_003, next to the upload and the delete of server.js, one request at a time
NextRename ==
    \/ \E rev \in {"p001", "p002a", "p003"} :
          started < MaxRenameRequests /\ RenameUploadStart(1, rev, RenameFolders)
    \/ RenameTranscribeDone(1, {"hello"})
    \/ RenamePutMediaDone(1)
    \/ RenamePutTextDone(1)
    \/ started < MaxRenameRequests /\ UploadStart(1, "server", {<<"A", "@", "b">>}, {<<"I">>})
    \/ CompressDone(1)
    \/ TranscribeDone(1, {"hello"})
    \/ PutMediaDone(1)
    \/ PutTextDone(1)
    \/ SetLinkDone(1)
    \/ started < MaxRenameRequests /\ DeleteUidStart(1, "p003")
    \/ started < MaxRenameRequests /\ DeleteStart(1, "server")
    \/ DelMediaDone(1)
    \/ DelTextDone(1)
    \/ QueryR2KeyDone(1)
    \/ QueryUrlDone(1)
    \/ CommitDone(1)
    \/ Finish(1)

SpecRename == Init /\ [][NextRename]_vars

\* the summarization endpoint of server.js and part_003 behind verifyToken,
\* next to the uploads of server.js that store the transcripts
NextAnalyze ==
    \/ started < MaxAnalyzeRequests /\ UploadStart(1, "server", {<<"A", "@", "b">>}, {<<"I">>})
    \/ CompressDone(1)
    \/ TranscribeDone(1, Texts)
    \/ PutMediaDone(1)
    \/ PutTextDone(1)
    \/ SetLinkDone(1)
    \/ \E rev \in {"server", "p003"} : VerifyStart(1, rev, "analyze")
    \/ VerifyIdTokenDone(1)
    \/ UserinfoDone(1)
    \/ FetchDone(1)
    \/ TextDone(1)
    \/ SummarizeDone(1)
    \/ Finish(1)

SpecAnalyze == Init /\ [][NextAnalyze]_vars

\* server.js serving two owners, one request at a time: each uploads under
\* their own email and lists and deletes with their own token
NextOwners ==
    \/ started < MaxOwnerRequests /\ UploadStart(1, "server", OwnerEmails, {<<"I">>})
    \/ CompressDone(1)
    \/ TranscribeDone(1, {"hello"})
    \/ PutMediaDone(1)
    \/ PutTextDone(1)
    \/ SetLinkDone(1)
    \/ ListStartAs(1, "server", OwnerEmails)
    \/ ListDone(1)
    \/ started < MaxOwnerRequests /\ DeleteStartAs(1, "server", OwnerEmails)
    \/ DelMediaDone(1)
    \/ DelTextDone(1)
    \/ QueryR2KeyDone(1)
    \/ QueryUrlDone(1)
    \/ CommitDone(1)
    \/ Finish(1)

SpecOwners == Init /\ [][NextOwners]_vars

\* server.js where every external call that was issued settles: the promise
\* of each awaited call resolves or rejects, and the event loop then runs the
\* continuation of the handler
SpecLive ==
    /\ Spec
    /\ WF_vars(CompressDone(1))
    /\ WF_vars(TranscribeDone(1, {"hello"}))
    /\ WF_vars(PutMediaDone(1))
    /\ WF_vars(PutTextDone(1))
    /\ WF_vars(SetLinkDone(1))
    /\ WF_vars(DelMediaDone(1))
    /\ WF_vars(DelTextDone(1))
    /\ WF_vars(QueryR2KeyDone(1))
    /\ WF_vars(QueryUrlDone(1))
    /\ WF_vars(CommitDone(1))

\* ------------------------------------------------------------------ claims

\* the upload request in slot s has been answered
UploadAnswered(s) == req[s].kind = "upload" /\ resp[s].status # 0

\* C1: once an upload request that brought a file has its response, success
\* or error, neither the raw upload file nor the compressed file of that
\* request is on disk.
C1_NoTempFilesAtResponse ==
    \A s \in Slots :
        (UploadAnswered(s) /\ req[s].hasFile) =>
            /\ <<req[s].file>> \notin disk
            /\ compressedPathOf(<<req[s].file>>) \notin disk

\* the upload request in slot s is answered in this step
UploadAnsweredNow(s) ==
    req'[s].kind = "upload" /\ resp[s].status = 0 /\ resp'[s].status # 0

\* C2: the short-link record of an upload is persisted exactly when the
\* upload is answered with success: the step that answers 200 leaves the
\* record under the returned id, a step that answers with an error leaves
\* the collection alone, and no other step of an upload writes a record.
C2_LinkPersistedIffSuccess ==
    [][/\ \A s \in Slots :
             UploadAnsweredNow(s) =>
                 IF resp'[s].status = 200
                 THEN /\ calls'[s][Len(calls'[s])] = [Call("setLink") EXCEPT !.result = "ok"]
                      /\ resp'[s].publicUrl = <<"v", loc'[s].shortId>>
                      /\ loc'[s].shortId \in ShortIds
                      /\ links'[loc'[s].shortId].exists
                      /\ links'[loc'[s].shortId].r2Key = loc'[s].r2Key
                      /\ links'[loc'[s].shortId].url = longUrlOf(loc'[s].r2Key)
                 ELSE links' = links
       /\ links' # links =>
             \E s \in Slots : UploadAnsweredNow(s) /\ resp'[s].status = 200
      ]_vars

\* an upload was answered 200 and its record is in the collection, while
\* another upload was answered with an error
C2_Witness ==
    \E s, t \in Slots :
        /\ UploadAnswered(s) /\ resp[s].status = 200
        /\ links[loc[s].shortId].r2Key = loc[s].r2Key
        /\ UploadAnswered(t) /\ resp[t].status = 500

\* the external calls of the upload pipeline, in the order of the handler
PipelineSteps == <<"transcode", "transcribe", "putMedia", "putText", "setLink">>

\* C6: within one upload request the external calls are issued in the order
\* transcode, transcription, media write, transcript write, short-link
\* write; a call is issued only after every earlier one succeeded, so a
\* failure is the last call of the request; the media blob of a request is
\* in storage only after its transcode and transcription succeeded.
C6_StrictStepOrder ==
    \A s \in Slots :
        req[s].kind = "upload" =>
            /\ Len(calls[s]) <= Len(PipelineSteps)
            /\ \A i \in 1..Len(calls[s]) : calls[s][i].op = PipelineSteps[i]
            /\ \A i \in 1..(Len(calls[s]) - 1) : calls[s][i].result = "ok"
            /\ (calls[s] # <<>> /\ calls[s][Len(calls[s])].result = "failed") =>
                   pc[s] = "done" /\ resp[s].status = 500
            /\ (\E o \in storage : o.body = CompressedBody(req[s].file)) =>
                   Len(calls[s]) >= 3 /\ calls[s][3].result = "ok"
            /\ resp[s].status = 200 =>
                   Len(calls[s]) = 5 /\ calls[s][5].result = "ok"

\* an upload whose media write failed after transcode and transcription
C6_Witness ==
    \E s \in Slots :
        /\ req[s].kind = "upload"
        /\ Len(calls[s]) = 3
        /\ calls[s][3].result = "failed"

\* C8: an upload whose transcode, transcription, blob write or short-link
\* write fails is answered 500 with the message of that failure; when the
\* transcode failed, the request made no other call and neither storage nor
\* the shortLinks collection was changed by it.
C8_FailureAnswered500 ==
    [][\A s \in Slots :
          /\ (UploadAnsweredNow(s) /\ calls'[s] # <<>> /\ resp'[s].status # 200) =>
                LET failure == calls'[s][Len(calls'[s])]
                IN  /\ resp'[s].status = 500
                    /\ failure.result = "failed"
                    /\ resp'[s].error = failure.error
                    /\ failure.op = "transcode" =>
                          /\ failure.error \in FfmpegErrors
                          /\ Len(calls'[s]) = 1
                          /\ storage' = storage /\ links' = links
                          /\ ~ \E o \in storage' : o.body = CompressedBody(req'[s].file)
          /\ (req'[s].kind = "upload" /\ pc[s] = "idle" /\ pc'[s] # "idle") =>
                storage' = storage /\ links' = links
      ]_vars

\* an upload answered after its transcode was killed, next to stored blobs
\* of another upload
C8_Witness ==
    \E s \in Slots :
        /\ UploadAnswered(s) /\ resp[s].status = 500
        /\ resp[s].error = "ffmpeg was killed with signal SIGKILL"
        /\ calls[s][1].result = "failed"
        /\ storage # {}

\* the delete request in slot s has been answered
DeleteAnswered(s) == req[s].kind = "delete" /\ resp[s].status # 0

\* C3: every delete request of an authenticated caller whose videoKey does
\* not start with users/<owner bucket of the caller's email>/ is answered
\* 403 and issues no deletion, whatever the request body holds.
C3_ForeignKeyForbidden ==
    \A s \in Slots :
        (/\ DeleteAnswered(s)
         /\ req[s].email # undefined
         /\ ~ (/\ req[s].videoKey # undefined
               /\ startsWith(req[s].videoKey, ownerPrefixOf(req[s].email)))) =>
            resp[s].status = 403 /\ calls[s] = <<>>

\* C4: no resolver that runs without authentication answers with the media
\* url of a record an upload created, in a redirect or in a body; the url is
\* given only to a requester whose verified email is the record's owner email.
C4_NoUnauthenticatedDisclosure ==
    \A s \in Slots :
        (resp[s].status # 0 /\ loc[s].doc.exists /\ loc[s].doc.r2Key # undefined) =>
            /\ req[s].kind = "resolve" =>
                   resp[s].location # loc[s].doc.url /\ resp[s].url = undefined
            /\ (req[s].kind = "secure" /\ resp[s].url # undefined) =>
                   /\ req[s].email # undefined
                   /\ toLowerCase(req[s].email) = toLowerCase(loc[s].doc.email)

\* the long url the answered resolution in slot s gave out, undefined when none
Yielded(s) ==
    IF req[s].kind = "resolve" /\ resp[s].status = 302
          /\ resp[s].location # watchPathOf(req[s].id)
    THEN resp[s].location
    ELSE IF req[s].kind = "secure" /\ resp[s].status = 200 THEN resp[s].url
    ELSE undefined

\* C5 as stated: resolving a short id gives the long url of every upload or
\* shorten operation that returned that id.
C5_RoundTripOfEveryOperation ==
    \A s \in Slots :
        Yielded(s) # undefined =>
            \A p \in handed.all : p[1] = req[s].id => p[2] = Yielded(s)

\* C5: resolving a short id gives the long url stored by the most recent
\* upload or shorten operation that returned that id, and an id that was
\* returned is never answered 404 while nothing has been deleted.
C5_RoundTripOfLastOperation ==
    \A s \in Slots :
        (req[s].kind \in {"resolve", "secure"} /\ resp[s].status # 0) =>
            /\ Yielded(s) # undefined => Yielded(s) = handed.last[req[s].id]
            /\ handed.last[req[s].id] # undefined => resp[s].status # 404

\* a resolution gave out a url for an id that two operations returned for
\* different urls
C5_Witness ==
    \E s \in Slots :
        /\ Yielded(s) # undefined
        /\ \E p \in handed.all : p[1] = req[s].id /\ p[2] # Yielded(s)

\* C7: on a successful upload the text the transcription service returned,
\* the transcription of the response, the body of the transcript blob and,
\* in the revisions that cache it, the transcription of the record are equal.
C7_TranscriptEverywhere ==
    \A s \in Slots :
        (UploadAnswered(s) /\ resp[s].status = 200) =>
            LET text == calls[s][2].value
            IN  /\ calls[s][2].op = "transcribe"
                /\ resp[s].transcription = text
                /\ \E o \in storage : o.key = textKeyOf(loc[s].r2Key) /\ o.body = text
                /\ req[s].rev \in {"p000", "p004"} =>
                       links[loc[s].shortId].transcription = text

\* a successful upload to a caching revision with a non-empty transcript
C7_Witness ==
    \E s \in Slots :
        /\ UploadAnswered(s) /\ resp[s].status = 200
        /\ req[s].rev = "p004"
        /\ calls[s][2].value = "hello"

\* C9: in the delete handler a failure of the media blob deletion is
\* answered 500 before the transcript or any record is touched; a failure of
\* the transcript deletion is swallowed, the short-link cleanup still runs
\* and the answer is success; when the lookups match no record the answer
\* is success.
C9_DeleteErrorHandling ==
    \A s \in Slots :
        (DeleteAnswered(s) /\ calls[s] # <<>>) =>
            /\ calls[s][1].result = "failed" =>
                   resp[s].status = 500 /\ Len(calls[s]) = 1
            /\ (Len(calls[s]) >= 2 /\ calls[s][2].result = "failed") =>
                   Len(calls[s]) >= 3 /\ resp[s].status = 200
            /\ (/\ calls[s][Len(calls[s])].op \in {"queryR2Key", "queryUrl"}
                /\ calls[s][Len(calls[s])].result = "ok") =>
                   resp[s].status = 200

\* C10: when a delete of key K is answered with success, the collection
\* holds no record whose r2Key is K and no record without r2Key whose url
\* is the public url of K.
C10_NoRecordAfterDelete ==
    \A s \in Slots :
        (DeleteAnswered(s) /\ resp[s].status = 200) =>
            \A id \in ShortIds :
                links[id].exists =>
                    /\ links[id].r2Key # req[s].videoKey
                    /\ ~ (/\ links[id].r2Key = undefined
                          /\ links[id].url = longUrlOf(req[s].videoKey))

\* the list request in slot s went through verifyToken and has been answered
ListAnswered(s) ==
    /\ req[s].kind = "list" /\ resp[s].status # 0
    /\ \E i \in DOMAIN calls[s] :
          calls[s][i].op \in {"verifyIdToken", "userinfo"} /\ calls[s][i].result = "ok"

\* the list request in slot s was answered after its ListObjectsV2 resolved
ListEnumerated(s) ==
    /\ ListAnswered(s)
    /\ calls[s][Len(calls[s])] = [Call("listObjects") EXCEPT !.result = "ok"]

\* the entries of the response in slot s
VideosOf(s) == {resp[s].videos[i] : i \in DOMAIN resp[s].videos}

\* C11: every entry my-videos of server.js returns has a key of an object in
\* storage that starts with users/<caller bucket>/ and ends in .mp4 or
\* .webm; a caller whose token carries no email gets an empty list and no
\* storage call is made.
C11_ListOnlyOwnMedia ==
    \A s \in Slots :
        (ListAnswered(s) /\ req[s].rev = "server") =>
            IF req[s].email = undefined
            THEN /\ resp[s].status = 200 /\ resp[s].videos = <<>>
                 /\ \A i \in DOMAIN calls[s] : calls[s][i].op # "listObjects"
            ELSE \A v \in VideosOf(s) :
                    /\ startsWith(v.key, Join(<<USERS, replaceAtDot(toLowerCase(req[s].email)),
                                                SLASH>>))
                    /\ endsWith(v.key, MP4) \/ endsWith(v.key, WEBM)
                    /\ \E o \in storage : o.key = v.key

\* a list with an entry, while storage also holds a blob of the public bucket
C11_Witness ==
    \E s \in Slots :
        /\ ListAnswered(s) /\ req[s].rev = "server"
        /\ resp[s].videos # <<>>
        /\ \E o \in storage : startsWith(o.key, Join(<<USERS, PUBLIC, SLASH>>))

\* C12: in a my-videos response of server.js built from an enumeration, the
\* uploadedAt of each entry is at least that of the next one, and the
\* entries are exactly the media blobs under the caller's prefix, each once.
C12_ListSortedDescending ==
    \A s \in Slots :
        (ListEnumerated(s) /\ req[s].rev = "server") =>
            LET videos == resp[s].videos
                media == {o \in storage :
                             /\ startsWith(o.key, ownerPrefixOf(req[s].email))
                             /\ endsWith(o.key, MP4) \/ endsWith(o.key, WEBM)}
            IN  /\ \A i \in 1..(Len(videos) - 1) :
                      videos[i].uploadedAt >= videos[i + 1].uploadedAt
                /\ {[key |-> v.key, uploadedAt |-> v.uploadedAt] : v \in VideosOf(s)}
                      = {[key |-> o.key, uploadedAt |-> o.lastModified] : o \in media}
                /\ Len(videos) = Cardinality(media)

\* a list of two entries uploaded at different times
C12_Witness ==
    \E s \in Slots :
        /\ ListEnumerated(s) /\ req[s].rev = "server"
        /\ Len(resp[s].videos) = 2
        /\ resp[s].videos[1].uploadedAt > resp[s].videos[2].uploadedAt

\* C13: a my-videos request whose enumeration fails is answered with
\* success and an empty videos list, never with an error status.
C13_ListFailureIsEmptyList ==
    \A s \in Slots :
        (/\ ListAnswered(s)
         /\ calls[s][Len(calls[s])].op = "listObjects"
         /\ calls[s][Len(calls[s])].result = "failed") =>
            resp[s].status = 200 /\ resp[s].videos = <<>>

\* the key of an upload of server.js with owner field E and category field C
\* at time t, as the claim spells it
ExpectedKey(E, C, t) ==
    Join(<<USERS,
           IF E = undefined THEN PUBLIC ELSE replaceAtDot(toLowerCase(E)),
           SLASH,
           IF C = undefined THEN GENERAL ELSE sanitize(C),
           SLASH, REC, Digit(t), MP4>>)

\* C14: a successful upload of server.js with owner field E and category
\* field C stores under users/<lowercase E with @ and . as _>/<sanitized
\* C>/rec_<digits>.mp4 (bucket public without E, General without C), and a
\* list by the owner whose email is E has an entry for that key whose
\* category is the sanitized C.
C14_KeyAndListedCategory ==
    \A s \in Slots :
        /\ (UploadAnswered(s) /\ resp[s].status = 200) =>
               /\ \E t \in 0..MaxClock :
                     loc[s].r2Key = ExpectedKey(req[s].folder, req[s].subfolder, t)
               /\ \E o \in storage : o.key = loc[s].r2Key
        /\ (ListEnumerated(s) /\ req[s].rev = "server") =>
               \A E \in Folders \ {undefined}, C \in Subfolders, t \in 0..MaxClock :
                   (/\ toLowerCase(E) = toLowerCase(req[s].email)
                    /\ \E o \in storage : o.key = ExpectedKey(E, C, t)) =>
                       \E v \in VideosOf(s) :
                           /\ v.key = ExpectedKey(E, C, t)
                           /\ v.formName = IF C = undefined THEN GENERAL ELSE sanitize(C)

\* the owner lists an upload whose category field was changed by sanitize
C14_Witness ==
    \E s \in Slots :
        /\ ListEnumerated(s) /\ req[s].rev = "server"
        /\ \E v \in VideosOf(s) :
              /\ v.formName = <<"I">>
              /\ v.key = ExpectedKey(<<"A", "@", "b">>, <<" ", "I", "!">>, 1)

\* C15: the category segment of the key of every upload holds allow-listed
\* characters only, without leading or trailing space, and is General
\* whenever the category field is absent or empty after sanitization.
C15_CategorySegment ==
    \A s \in Slots :
        (req[s].kind = "upload" /\ loc[s].r2Key # undefined) =>
            LET segment == split(loc[s].r2Key)[3]
            IN  /\ \A i \in DOMAIN segment : segment[i] \in AllowedChars
                /\ segment # <<>> => segment[1] # " " /\ segment[Len(segment)] # " "
                /\ (req[s].subfolder = undefined \/ sanitize(req[s].subfolder) = <<>>) =>
                       segment = GENERAL

\* the resolution request in slot s is answered in this step by one of the
\* routes GET /v/:id of server.js, GET /s/:id and get-secure-video of part_000
ResolvedNow(s) ==
    /\ resp[s].status = 0 /\ resp'[s].status # 0
    /\ \/ req'[s].kind = "resolve" /\ req'[s].rev = "server" /\ req'[s].route = "v"
       \/ req'[s].kind = "resolve" /\ req'[s].rev = "p000" /\ req'[s].route = "s"
       \/ req'[s].kind = "secure" /\ req'[s].rev = "p000"

\* C16: a resolution request whose document read finds no record under the
\* identifier is answered 404 without a redirect or a url, and the
\* shortLinks collection is left unchanged.
C16_UnknownIdIs404 ==
    [][\A s \in Slots :
          ResolvedNow(s) =>
              /\ links' = links
              /\ (~links[req'[s].id].exists /\ calls'[s] = docRead(TRUE)) =>
                     /\ resp'[s].status = 404
                     /\ resp'[s].location = undefined
                     /\ resp'[s].url = undefined
      ]_vars

\* an unknown identifier answered by get-secure-video of part_000 while the
\* collection holds a record under the other identifier
C16_Witness ==
    \E s \in Slots :
        /\ req[s].kind = "secure" /\ req[s].rev = "p000"
        /\ resp[s].status = 404
        /\ ~links[req[s].id].exists
        /\ \E id \in ShortIds : links[id].exists

\* C17: an upload request without a file is answered 400; it starts no
\* transcode and no transcription, and writes nothing to storage, to the
\* shortLinks collection or to the upload directory.
C17_NoFileIs400 ==
    [][\A s \in Slots :
          (UploadAnsweredNow(s) /\ ~req'[s].hasFile) =>
              /\ resp'[s].status = 400
              /\ calls'[s] = <<>>
              /\ storage' = storage /\ links' = links /\ disk' = disk
      ]_vars

\* an upload without a file answered while another upload is at its media write
C17_Witness ==
    \E s, t \in Slots :
        /\ UploadAnswered(s) /\ ~req[s].hasFile /\ resp[s].status = 400
        /\ pc[t] = "putMedia"

\* the calls of the route handlers behind verifyToken
HandlerOps ==
    {"listObjects", "deleteMedia", "deleteText", "queryR2Key", "queryUrl", "commit"}

\* the calls of verifyToken
VerifyOps == {"verifyIdToken", "userinfo"}

\* the request in slot s came to a route behind verifyToken
Protected(s) == req[s].kind \in {"list", "delete"}

C19_TwoStageInOrder ==
    \A s \in Slots :
        (Protected(s) /\ twoStage(req[s].rev)) =>
            LET log == calls[s]
            IN  /\ \A i \in DOMAIN log :
                       log[i].op = "userinfo" =>
                           i = 2 /\ log[1].op = "verifyIdToken" /\ log[1].result = "failed"
                /\ log # <<>> => log[1].op = "verifyIdToken"
                /\ \A i \in DOMAIN log :
                       (log[i].op \in VerifyOps /\ log[i].result = "ok") =>
                           /\ req[s].uid # undefined
                           /\ \A j \in DOMAIN log : j > i => log[j].op \in HandlerOps
                           /\ Len(log) > i
                /\ (Len(log) = 2 /\ log[2].op = "userinfo" /\ log[2].result = "failed") =>
                       resp[s] = [NoResp EXCEPT !.status = 403, !.error = "Forbidden"]

\* both stages failed, the second on a body that is no JSON
C19_Witness ==
    \E s \in Slots :
        /\ Protected(s) /\ twoStage(req[s].rev)
        /\ Len(calls[s]) = 2
        /\ calls[s][2].error = "invalid json"
        /\ resp[s].status = 403

\* C20: within one upload request each of transcode, transcription, media
\* write, transcript write and short-link write is invoked at most once,
\* and no step is invoked after a step of the request failed.
C20_NoRetry ==
    \A s \in Slots :
        req[s].kind = "upload" =>
            /\ \A i, j \in DOMAIN calls[s] : calls[s][i].op = calls[s][j].op => i = j
            /\ \A i \in DOMAIN calls[s] :
                   calls[s][i].result = "failed" => i = Len(calls[s])

\* an upload answered after its transcript write failed
C20_Witness ==
    \E s \in Slots :
        /\ UploadAnswered(s)
        /\ Len(calls[s]) = 4
        /\ calls[s][4].result = "failed"

\* the key with only its final extension changed to .txt
SiblingKey(key) ==
    LET dots == {i \in DOMAIN key : key[i] = "."}
        last == CHOOSE i \in dots : \A j \in dots : j <= i
    IN  SubSeq(key, 1, last - 1) \o TXT

\* C21: when an upload has been answered with success, the transcript is
\* stored under the media key with only the final extension changed to .txt,
\* and when a delete whose transcript DeleteObject succeeded has been answered
\* with success, nothing is stored under that sibling of the deleted key
C21_TranscriptIsSibling ==
    \A s \in Slots :
        /\ (UploadAnswered(s) /\ resp[s].status = 200)
              => \E o \in storage : /\ o.key = SiblingKey(loc[s].r2Key)
                                    /\ o.body = loc[s].text
        /\ (/\ req[s].kind = "delete"
            /\ resp[s].status = 200
            /\ \E i \in DOMAIN calls[s] : /\ calls[s][i].op = "deleteText"
                                          /\ calls[s][i].result = "ok")
              => ~ \E o \in storage : o.key = SiblingKey(req[s].videoKey)

\* C25: when a rename-based upload that carried a file has been answered, with
\* success or with an error, the renamed file <upload path>.webm is not on disk
C25_NoRenamedFileAtResponse ==
    \A s \in Slots :
        (/\ UploadAnswered(s)
         /\ req[s].rev \in {"p001", "p002a", "p003"}
         /\ req[s].hasFile)
            => newPathOf(<<req[s].file>>) \notin disk

\* the analyze-text request of server.js in slot s has been answered by its handler
AnalyzeAnswered(s) ==
    /\ req[s].kind = "analyze"
    /\ req[s].rev = "server"
    /\ resp[s].status # 0
    /\ \E i \in DOMAIN calls[s] : calls[s][i].op = "fetch"

\* the calls the handler made (those after the middleware's)
AnalyzeCalls(s) == SelectSeq(calls[s], LAMBDA c : c.op \in {"fetch", "text", "summarize"})

\* C22: an answered analyze-text request of server.js whose fetch, body read
\* or summarization call failed carries exactly 500 { error: "AI Error" },
\* whatever the step and the message; otherwise it carries 200 and, as
\* analysis, the text the summarization call returned, and that call was
\* made for the text the fetch returned
C22_AnalyzeGenericError ==
    \A s \in Slots :
        AnalyzeAnswered(s) =>
            LET log == AnalyzeCalls(s)
            IN  IF \E i \in DOMAIN log : log[i].result = "failed"
                THEN resp[s] = errorResponse(500, "AI Error")
                ELSE /\ Len(log) = 3
                     /\ log[2].value = fetchBody(storage, req[s].textUrl)
                     /\ loc[s].text = log[2].value
                     /\ resp[s] = analysisResponse(log[3].value)

\* an analyze-text request of server.js fetched a stored transcript and was
\* answered after its summarization call failed
C22_Witness ==
    \E s \in Slots :
        /\ AnalyzeAnswered(s)
        /\ loc[s].text = "hello"
        /\ Len(AnalyzeCalls(s)) = 3
        /\ AnalyzeCalls(s)[3].result = "failed"
        /\ AnalyzeCalls(s)[3].error = OpenAiError

\* the upload request in slot s is between its first await and its response
UploadInFlight(s) == req[s].kind = "upload" /\ pc[s] \notin {"idle", "done"}

\* the temporary files of the upload in slot s
TempFilesOf(s) == {loc[s].tempPath, loc[s].compressedPath}

\* C23: two uploads in flight never share a temporary file; the media an
\* upload stores is the transcode of its own file; and a temporary file of an
\* upload in flight leaves the disk only in the step in which that upload itself
\* is answered
C23_OwnTempFiles ==
    [][\A s \in Slots :
          UploadInFlight(s) =>
            /\ \A t \in Slots \ {s} :
                  UploadInFlight(t) => TempFilesOf(s) \cap TempFilesOf(t) = {}
            /\ (pc[s] = "putMedia" /\ pc'[s] = "putText")
                  => \E o \in storage' : /\ o.key = loc[s].r2Key
                                         /\ o.body = CompressedBody(req[s].file)
            /\ \A p \in (TempFilesOf(s) \cap disk) \ disk' : pc'[s] = "done"]_vars

\* one upload has been answered with success and cleaned up while the other
\* is still in flight with both its temporary files on disk
C23_Witness ==
    \E s, t \in Slots :
        /\ s # t
        /\ UploadAnswered(s)
        /\ resp[s].status = 200
        /\ TempFilesOf(s) \cap disk = {}
        /\ UploadInFlight(t)
        /\ TempFilesOf(t) \subseteq disk

\* C24: two uploads answered with success never have the same storage key, so
\* neither's blob writes replaced a blob of the other
C24_DistinctKeys ==
    \A s, t \in Slots :
        (/\ s # t
         /\ UploadAnswered(s) /\ resp[s].status = 200
         /\ UploadAnswered(t) /\ resp[t].status = 200)
            => loc[s].r2Key # loc[t].r2Key

\* C26: in the step in which an upload is answered 500 after one or both of
\* its blob writes succeeded, storage and the shortLinks collection do not
\* change, and the keys it wrote still hold a blob
C26_NoRollback ==
    [][\A s \in Slots :
          (/\ req[s].kind = "upload"
           /\ pc[s] \in {"putText", "setLink"}
           /\ resp'[s].status = 500)
             => /\ storage' = storage
                /\ links' = links
                /\ \E o \in storage' : o.key = loc[s].r2Key
                /\ pc[s] = "setLink"
                      => \E o \in storage' : o.key = textKeyOf(loc[s].r2Key)]_vars

\* an upload was answered 500 because its short-link write failed, and both
\* its blobs are in storage
C26_Witness ==
    \E s \in Slots :
        /\ UploadAnswered(s)
        /\ resp[s].status = 500
        /\ calls[s] # <<>>
        /\ calls[s][Len(calls[s])].op = "setLink"
        /\ \E o \in storage : o.key = loc[s].r2Key
        /\ \E o \in storage : o.key = textKeyOf(loc[s].r2Key)

\* the get-secure-video request in slot s has been answered
SecureAnswered(s) == req[s].kind = "secure" /\ resp[s].status # 0

\* the requester's email equals the owner email of the record read, compared
\* without regard to case
RequesterIsOwner(s) ==
    /\ loc[s].doc.exists
    /\ truthy(loc[s].doc.email)
    /\ req[s].email # undefined
    /\ toLowerCase(req[s].email) = toLowerCase(loc[s].doc.email)

\* C27: an answered get-secure-video request carries the record's url when
\* the requester is the record's owner and the read succeeded, and in every
\* other case an error status without url and without transcript
C27_SecureVideoOwnerOnly ==
    \A s \in Slots :
        SecureAnswered(s) =>
            IF resp[s].status = 200
            THEN /\ RequesterIsOwner(s)
                 /\ resp[s].url = loc[s].doc.url
            ELSE /\ resp[s].status \in {403, 404, 500}
                 /\ resp[s].url = undefined
                 /\ resp[s].transcription = ""
                 /\ (calls[s][1].result = "ok" /\ loc[s].doc.exists)
                       => ~RequesterIsOwner(s)

\* the owner, signed in with the email in another case, got the url of the record
C27_Witness ==
    \E s \in Slots :
        /\ SecureAnswered(s)
        /\ req[s].email = <<"A", "@", "b">>
        /\ loc[s].doc.email = <<"a", "@", "b">>
        /\ resp[s].status = 200
        /\ resp[s].url = loc[s].doc.url

\* the record of the upload that wrote key names another owner than email
UploadedByAnother(key, email) ==
    \E id \in ShortIds : /\ links[id].exists
                         /\ links[id].r2Key = key
                         /\ links[id].email # toLowerCase(email)

\* C28: owner emails that differ after lower-casing are kept apart: no list
\* response carries, and no delete request is let through the prefix check
\* for, a media key whose upload record names another owner email than the
\* caller's
C28_OwnersKeptApart ==
    \A s \in Slots :
        /\ (req[s].kind = "list" /\ resp[s].status # 0)
              => \A i \in DOMAIN resp[s].videos :
                    ~UploadedByAnother(resp[s].videos[i].key, req[s].email)
        /\ (req[s].kind = "delete" /\ pc[s] = "delMedia")
              => ~UploadedByAnother(req[s].videoKey, req[s].email)

\* C29: whenever no request is in flight, every shortLinks record that has an
\* r2Key refers to a media blob that is in storage
C29_RecordHasBlob ==
    (\A s \in Slots : pc[s] \in {"idle", "done"})
        => \A id \in ShortIds :
              (links[id].exists /\ links[id].r2Key # undefined)
                 => \E o \in storage : o.key = links[id].r2Key

\* the request in slot s is an upload or a delete that the handler has not left
HandlerRunning(s) == req[s].kind \in {"upload", "delete"} /\ pc[s] \notin {"idle", "done"}

\* C30: every upload and every delete request is answered (a running handler
\* leads to a response), the handler is left exactly when the response has
\* been sent, and a response that has been sent is never replaced by another
C30_ExactlyOneResponse ==
    /\ \A s \in Slots : HandlerRunning(s) ~> (pc[s] = "done" /\ resp[s].status # 0)
    /\ [](\A s \in Slots :
             req[s].kind \in {"upload", "delete"}
                => (pc[s] = "done" <=> resp[s].status # 0))
    /\ [][\A s \in Slots :
             (req[s].kind \in {"upload", "delete"} /\ resp[s].status # 0)
                => (resp'[s] = resp[s] \/ pc'[s] = "idle")]_vars

\* a delete that went through every call of the handler has been answered
C30_Witness ==
    \E s \in Slots :
        /\ DeleteAnswered(s)
        /\ resp[s].status = 200
        /\ Len(calls[s]) = 4
        /\ calls[s][4].op = "commit"
====
